---- MODULE Spec2Model ----
(***************************************************************************)
(* Graph store (src/src/types.rs) and rule-based rewriting engine          *)
(* (src/src/rules.rs) of the graph generation language.                    *)
(*                                                                         *)
(* A HashMap<String, T> is a function from a finite set of strings.  Its   *)
(* iteration order is unspecified: every loop over a map takes an          *)
(* arbitrary permutation of the keys, the same one for all loops over the  *)
(* same unmodified map.                                                    *)
(***************************************************************************)
EXTENDS Integers, Sequences, FiniteSets, TLC

\* ------------------------------------------------------------------------
\* Bounds
\* ------------------------------------------------------------------------

\* largest iteration count passed to Rule::apply
MaxIter == 2

\* largest number of edges the environment puts into the graph before a rule
\* is applied
MaxEdges == 1

\* the most statements handed to the engine, over all its calls
MaxStmts == 3

\* the largest node count handed to a generator
MaxN == 5

\* the largest rows / cols handed to generate_grid
MaxDim == 4

\* ------------------------------------------------------------------------
\* Generic helpers for maps and sequences
\* ------------------------------------------------------------------------

EmptyMap == [x \in {} |-> 0]

Range(f) == {f[x] : x \in DOMAIN f}

\* HashMap::insert
Put(f, k, v) == [x \in (DOMAIN f) \cup {k} |-> IF x = k THEN v ELSE f[x]]

\* HashMap::remove / retain
Restrict(f, S) == [x \in S |-> f[x]]

\* every iteration order of a set of keys
RECURSIVE Perms(_)
Perms(S) ==
    IF S = {} THEN {<<>>}
    ELSE UNION {{<<x>> \o p : p \in Perms(S \ {x})} : x \in S}

\* ------------------------------------------------------------------------
\* types.rs: MetadataValue, Node, Edge, Graph
\* ------------------------------------------------------------------------

\* enum MetadataValue: equality compares the variant and the content
MetadataValue(variant, v) == [variant |-> variant, v |-> v]

\* Node::new(id): empty type, empty metadata (x, y are always 0.0 in the
\* store and the rewriter and are left out)
NodeNew(id) == [id |-> id, type |-> "", metadata |-> EmptyMap]

NodeWithType(n, t) == [n EXCEPT !.type = t]

NodeWithMetadata(n, k, v) == [n EXCEPT !.metadata = Put(n.metadata, k, v)]

\* Edge::new(id, source, target)
EdgeNew(id, s, t) ==
    [id |-> id, source |-> s, target |-> t, type |-> "", metadata |-> EmptyMap]

EdgeWithMetadata(e, k, v) == [e EXCEPT !.metadata = Put(e.metadata, k, v)]

\* struct Graph { nodes, edges }
Graph(ns, es) == [nodes |-> ns, edges |-> es]

GraphNew == Graph(EmptyMap, EmptyMap)

\* add_node that leaves a node already stored under the id in place
add_node_keep_existing(g, n) ==
    IF n.id \in DOMAIN g.nodes THEN g ELSE [g EXCEPT !.nodes = Put(g.nodes, n.id, n)]

add_node(g, n) == [g EXCEPT !.nodes = Put(g.nodes, n.id, n)]

add_edge(g, e) == [g EXCEPT !.edges = Put(g.edges, e.id, e)]

\* remove_node that only drops the edges leaving the node
remove_node_outgoing_only(g, id) ==
    Graph(Restrict(g.nodes, (DOMAIN g.nodes) \ {id}),
          Restrict(g.edges, {k \in DOMAIN g.edges : g.edges[k].source # id}))

remove_node(g, id) ==
    Graph(Restrict(g.nodes, (DOMAIN g.nodes) \ {id}),
          Restrict(g.edges, {k \in DOMAIN g.edges :
                                g.edges[k].source # id /\ g.edges[k].target # id}))

remove_edge(g, id) == [g EXCEPT !.edges = Restrict(g.edges, (DOMAIN g.edges) \ {id})]

\* ------------------------------------------------------------------------
\* parser types used by rules.rs: NodeDeclaration, EdgeDeclaration, Pattern
\* ------------------------------------------------------------------------

\* Option<String>: None is <<>>, Some(t) is <<t>>
None == <<>>

Some(t) == <<t>>

NodeDeclaration(id, node_type, attributes) ==
    [id |-> id, node_type |-> node_type, attributes |-> attributes]

EdgeDeclaration(id, s, t, attributes) ==
    [id |-> id, source |-> s, target |-> t, directed |-> TRUE,
     attributes |-> attributes]

Pattern(ns, es) == [nodes |-> ns, edges |-> es]

\* struct Rule { name, lhs, rhs }
Rule(name, lhs, rhs) == [name |-> name, lhs |-> lhs, rhs |-> rhs]

\* struct Match { node_mapping, edge_mapping }
Match(nm, em) == [node_mapping |-> nm, edge_mapping |-> em]

\* ------------------------------------------------------------------------
\* rules.rs: the matcher
\* ------------------------------------------------------------------------

\* attribute values not compared: a template attribute only has to be a key
\* of the node's metadata
node_matches_key_only(g, graph_node_id, pattern_node) ==
    IF graph_node_id \notin DOMAIN g.nodes
    THEN [ok |-> FALSE, val |-> FALSE]
    ELSE LET graph_node == g.nodes[graph_node_id] IN
         [ok  |-> TRUE,
          val |-> /\ (pattern_node.node_type # None =>
                         graph_node.type = pattern_node.node_type[1])
                  /\ \A key \in DOMAIN pattern_node.attributes :
                         key \in DOMAIN graph_node.metadata]

\* Rule::node_matches: Err when the node is absent, else Ok(type and
\* attribute constraints hold)
node_matches(g, graph_node_id, pattern_node) ==
    IF graph_node_id \notin DOMAIN g.nodes
    THEN [ok |-> FALSE, val |-> FALSE]
    ELSE LET graph_node == g.nodes[graph_node_id] IN
         [ok  |-> TRUE,
          val |-> /\ (pattern_node.node_type # None =>
                         graph_node.type = pattern_node.node_type[1])
                  /\ \A key \in DOMAIN pattern_node.attributes :
                         /\ key \in DOMAIN graph_node.metadata
                         /\ graph_node.metadata[key] = pattern_node.attributes[key]]

\* inner loop of extend_match over graph.nodes (lines 84-94): the first
\* node in iteration order that is not a value of node_mapping and matches
RECURSIVE FirstNode(_, _, _, _, _)
FirstNode(g, pattern_node, node_mapping, nord, j) ==
    IF j > Len(nord) THEN [status |-> "none", id |-> ""]
    ELSE IF nord[j] \in Range(node_mapping)
         THEN FirstNode(g, pattern_node, node_mapping, nord, j + 1)
    ELSE LET r == node_matches(g, nord[j], pattern_node) IN
         IF ~r.ok THEN [status |-> "err", id |-> ""]
         ELSE IF r.val THEN [status |-> "found", id |-> nord[j]]
         ELSE FirstNode(g, pattern_node, node_mapping, nord, j + 1)

\* inner loop of extend_match over graph.edges (lines 112-122): the first
\* edge in iteration order that is not a value of edge_mapping and joins
\* source to target
RECURSIVE FirstEdge(_, _, _, _, _, _)
FirstEdge(g, source, target, edge_mapping, eord, j) ==
    IF j > Len(eord) THEN [status |-> "none", id |-> ""]
    ELSE IF eord[j] \in Range(edge_mapping)
         THEN FirstEdge(g, source, target, edge_mapping, eord, j + 1)
    ELSE IF g.edges[eord[j]].source = source /\ g.edges[eord[j]].target = target
         THEN [status |-> "found", id |-> eord[j]]
    ELSE FirstEdge(g, source, target, edge_mapping, eord, j + 1)

\* second loop of extend_match (lines 101-127), from edge template i on
RECURSIVE ExtendEdges(_, _, _, _, _, _)
ExtendEdges(g, pattern, i, node_mapping, edge_mapping, eord) ==
    IF i > Len(pattern.edges)
    THEN [status |-> "true", node_mapping |-> node_mapping,
          edge_mapping |-> edge_mapping]
    ELSE LET pattern_edge == pattern.edges[i] IN
         IF \/ pattern_edge.source \notin DOMAIN node_mapping
            \/ pattern_edge.target \notin DOMAIN node_mapping
         THEN [status |-> "err", node_mapping |-> node_mapping,
               edge_mapping |-> edge_mapping]
         ELSE LET f == FirstEdge(g, node_mapping[pattern_edge.source],
                                 node_mapping[pattern_edge.target],
                                 edge_mapping, eord, 1) IN
              IF f.status = "found"
              THEN ExtendEdges(g, pattern, i + 1, node_mapping,
                               Put(edge_mapping, pattern_edge.id, f.id), eord)
              ELSE [status |-> "false", node_mapping |-> node_mapping,
                    edge_mapping |-> edge_mapping]

\* first loop of extend_match (lines 80-99), from node template i on, then
\* the edge loop
RECURSIVE ExtendNodes(_, _, _, _, _, _, _)
ExtendNodes(g, pattern, i, node_mapping, edge_mapping, nord, eord) ==
    IF i > Len(pattern.nodes)
    THEN ExtendEdges(g, pattern, 1, node_mapping, edge_mapping, eord)
    ELSE LET f == FirstNode(g, pattern.nodes[i], node_mapping, nord, 1) IN
         IF f.status = "err"
         THEN [status |-> "err", node_mapping |-> node_mapping,
               edge_mapping |-> edge_mapping]
         ELSE IF f.status = "none"
         THEN [status |-> "false", node_mapping |-> node_mapping,
               edge_mapping |-> edge_mapping]
         ELSE ExtendNodes(g, pattern, i + 1,
                          Put(node_mapping, pattern.nodes[i].id, f.id),
                          edge_mapping, nord, eord)

\* a search that backtracks: any completion of node_mapping to an injective
\* binding of all templates is taken when one exists
extend_match_backtracking(g, pattern, node_mapping, edge_mapping, nord, eord) ==
    LET ids  == {pattern.nodes[i].id : i \in DOMAIN pattern.nodes}
        eids == {pattern.edges[i].id : i \in DOMAIN pattern.edges}
        E == {m \in [node_mapping : [ids -> DOMAIN g.nodes],
                     edge_mapping : [eids -> DOMAIN g.edges]] :
                /\ \A k \in DOMAIN node_mapping :
                       m.node_mapping[k] = node_mapping[k]
                /\ \A x \in ids : \A y \in ids :
                       x # y => m.node_mapping[x] # m.node_mapping[y]
                /\ \A i \in DOMAIN pattern.nodes :
                       node_matches(g, m.node_mapping[pattern.nodes[i].id],
                                    pattern.nodes[i]).val
                /\ \A x \in eids : \A y \in eids :
                       x # y => m.edge_mapping[x] # m.edge_mapping[y]
                /\ \A i \in DOMAIN pattern.edges :
                       LET t == pattern.edges[i] IN
                       /\ t.source \in ids
                       /\ t.target \in ids
                       /\ g.edges[m.edge_mapping[t.id]].source = m.node_mapping[t.source]
                       /\ g.edges[m.edge_mapping[t.id]].target = m.node_mapping[t.target]}
    IN  IF E # {}
        THEN LET m == CHOOSE x \in E : TRUE IN
             [status |-> "true", node_mapping |-> m.node_mapping,
              edge_mapping |-> m.edge_mapping]
        ELSE ExtendNodes(g, pattern, 2, node_mapping, edge_mapping, nord, eord)

\* Rule::extend_match: status "true", "false" or "err", with the mappings as
\* the call leaves them
extend_match(g, pattern, node_mapping, edge_mapping, nord, eord) ==
    ExtendNodes(g, pattern, 2, node_mapping, edge_mapping, nord, eord)

\* the error of extend_match taken for a failed attempt
match_pattern_from_node_error_is_none(g, start_node, pattern, nord, eord) ==
    IF Len(pattern.nodes) = 0
    THEN [status |-> "some", m |-> Match(EmptyMap, EmptyMap)]
    ELSE LET first_pattern_node == pattern.nodes[1]
             r == node_matches(g, start_node, first_pattern_node) IN
         IF ~r.ok THEN [status |-> "err", m |-> Match(EmptyMap, EmptyMap)]
         ELSE IF ~r.val THEN [status |-> "none", m |-> Match(EmptyMap, EmptyMap)]
         ELSE LET x == extend_match(g, pattern,
                                    Put(EmptyMap, first_pattern_node.id, start_node),
                                    EmptyMap, nord, eord) IN
              IF x.status = "true"
              THEN [status |-> "some", m |-> Match(x.node_mapping, x.edge_mapping)]
              ELSE [status |-> "none", m |-> Match(EmptyMap, EmptyMap)]

\* Rule::match_pattern_from_node: status "some" (with m), "none" or "err"
match_pattern_from_node(g, start_node, pattern, nord, eord) ==
    IF Len(pattern.nodes) = 0
    THEN [status |-> "some", m |-> Match(EmptyMap, EmptyMap)]
    ELSE LET first_pattern_node == pattern.nodes[1]
             r == node_matches(g, start_node, first_pattern_node) IN
         IF ~r.ok THEN [status |-> "err", m |-> Match(EmptyMap, EmptyMap)]
         ELSE IF ~r.val THEN [status |-> "none", m |-> Match(EmptyMap, EmptyMap)]
         ELSE LET x == extend_match(g, pattern,
                                    Put(EmptyMap, first_pattern_node.id, start_node),
                                    EmptyMap, nord, eord) IN
              IF x.status = "err"
              THEN [status |-> "err", m |-> Match(EmptyMap, EmptyMap)]
              ELSE IF x.status = "true"
              THEN [status |-> "some", m |-> Match(x.node_mapping, x.edge_mapping)]
              ELSE [status |-> "none", m |-> Match(EmptyMap, EmptyMap)]

\* loop of find_matches (lines 33-43) from position i of the iteration order
RECURSIVE FindLoop(_, _, _, _, _, _, _)
FindLoop(g, lhs, nord, eord, i, visited, matches) ==
    IF i > Len(nord) THEN [ok |-> TRUE, matches |-> matches]
    ELSE IF nord[i] \in visited
         THEN FindLoop(g, lhs, nord, eord, i + 1, visited, matches)
    ELSE LET r == match_pattern_from_node(g, nord[i], lhs, nord, eord) IN
         IF r.status = "err" THEN [ok |-> FALSE, matches |-> <<>>]
         ELSE IF r.status = "some"
         THEN FindLoop(g, lhs, nord, eord, i + 1,
                       visited \cup Range(r.m.node_mapping),
                       Append(matches, r.m))
         ELSE FindLoop(g, lhs, nord, eord, i + 1, visited, matches)

\* a pattern without node templates taken to match nothing
find_matches_empty_lhs_no_match(g, lhs, nord, eord) ==
    IF Len(lhs.nodes) = 0 THEN [ok |-> TRUE, matches |-> <<>>]
    ELSE FindLoop(g, lhs, nord, eord, 1, {}, <<>>)

\* Rule::find_matches under the iteration orders nord of graph.nodes and
\* eord of graph.edges
find_matches(g, lhs, nord, eord) == FindLoop(g, lhs, nord, eord, 1, {}, <<>>)

\* ------------------------------------------------------------------------
\* rules.rs: the rewriter
\* ------------------------------------------------------------------------

RhsNodeIds(rhs) == {rhs.nodes[i].id : i \in DOMAIN rhs.nodes}

RhsEdgeIds(rhs) == {rhs.edges[i].id : i \in DOMAIN rhs.edges}

\* lines 159-165: the graph id an RHS node template stands for
rhs_node_id(m, node) ==
    IF node.id \in DOMAIN m.node_mapping THEN m.node_mapping[node.id] ELSE node.id

\* lines 167-177: the record built for an RHS node template that is created
new_node(node_id, node) ==
    LET n0 == NodeNew(node_id)
        n1 == IF node.node_type # None THEN NodeWithType(n0, node.node_type[1]) ELSE n0
    IN  [n1 EXCEPT !.metadata = [k \in DOMAIN node.attributes |-> node.attributes[k]]]

\* the check of line 167 left out: every RHS node template is created
creates_node_always(m, node_id) == TRUE

\* line 167: a template's node is created only when its graph id is not a
\* value of the match's node mapping
creates_node(m, node_id) == node_id \notin Range(m.node_mapping)

\* lines 156-178: the map new_nodes after RHS node templates i..
RECURSIVE NewNodes(_, _, _, _)
NewNodes(rhs, m, i, new_nodes) ==
    IF i > Len(rhs.nodes) THEN new_nodes
    ELSE LET node    == rhs.nodes[i]
             node_id == rhs_node_id(m, node) IN
         NewNodes(rhs, m, i + 1,
                  IF creates_node(m, node_id)
                  THEN Put(new_nodes, node_id, new_node(node_id, node))
                  ELSE new_nodes)

\* lines 181-185: the graph ids whose pattern id is no RHS node template
removed_ids(rhs, m) ==
    {m.node_mapping[p] : p \in {q \in DOMAIN m.node_mapping : q \notin RhsNodeIds(rhs)}}

\* graph.remove_node for every id of S (the calls commute)
RECURSIVE RemoveNodes(_, _)
RemoveNodes(g, S) ==
    IF S = {} THEN g
    ELSE LET id == CHOOSE x \in S : TRUE IN RemoveNodes(remove_node(g, id), S \ {id})

\* lines 188-190: graph.add_node for every record of new_nodes (distinct ids,
\* the calls commute)
RECURSIVE AddNodes(_, _)
AddNodes(g, new_nodes) ==
    IF DOMAIN new_nodes = {} THEN g
    ELSE LET id == CHOOSE x \in DOMAIN new_nodes : TRUE IN
         AddNodes(add_node(g, new_nodes[id]),
                  Restrict(new_nodes, (DOMAIN new_nodes) \ {id}))

\* endpoints never resolved through the match
resolve_endpoint_literal(m, ref) == ref

\* lines 194-204: an RHS edge endpoint is the mapped graph id of a matched
\* pattern id and the literal template id otherwise
resolve_endpoint(m, ref) ==
    IF ref \in DOMAIN m.node_mapping THEN m.node_mapping[ref] ELSE ref

\* lines 206-209: the edge built for an RHS edge template
new_edge(m, edge) ==
    LET e0 == EdgeNew(edge.id, resolve_endpoint(m, edge.source),
                      resolve_endpoint(m, edge.target))
    IN  [e0 EXCEPT !.metadata = [k \in DOMAIN edge.attributes |-> edge.attributes[k]]]

\* lines 193-211: graph.add_edge for RHS edge templates i.., in order
RECURSIVE AddEdges(_, _, _, _)
AddEdges(g, rhs, m, i) ==
    IF i > Len(rhs.edges) THEN g
    ELSE AddEdges(add_edge(g, new_edge(m, rhs.edges[i])), rhs, m, i + 1)

\* a Match validated again before its rewrite: skipped when a node it binds
\* is no longer in the graph
apply_transformation_revalidated(g, rhs, m) ==
    IF \E x \in Range(m.node_mapping) : x \notin DOMAIN g.nodes
    THEN g
    ELSE LET new_nodes == NewNodes(rhs, m, 1, EmptyMap)
             g1 == RemoveNodes(g, removed_ids(rhs, m))
             g2 == AddNodes(g1, new_nodes)
         IN  AddEdges(g2, rhs, m, 1)

\* Rule::apply_transformation (it never returns Err)
apply_transformation(g, rhs, m) ==
    LET new_nodes == NewNodes(rhs, m, 1, EmptyMap)
        g1 == RemoveNodes(g, removed_ids(rhs, m))
        g2 == AddNodes(g1, new_nodes)
    IN  AddEdges(g2, rhs, m, 1)

\* an empty match set reported as an error instead of ending the loop
after_find_empty_is_error(r) ==
    IF ~r.ok THEN "err"
    ELSE IF Len(r.matches) = 0 THEN "err"
    ELSE "for"

\* lines 15-18 of Rule::apply: what the loop does with the matcher's result
after_find(r) ==
    IF ~r.ok THEN "err"
    ELSE IF Len(r.matches) = 0 THEN "break"
    ELSE "for"

\* ------------------------------------------------------------------------
\* generators.rs
\* ------------------------------------------------------------------------

\* the names get_generator knows (lines 8-14)
GeneratorNames ==
    {"complete", "path", "cycle", "grid", "star", "tree", "barabasi_albert"}

\* a name outside the registry falls back to generate_complete
get_generator_default_complete(name) ==
    IF name \in GeneratorNames THEN Some(name) ELSE Some("complete")

\* get_generator: the function is stood for by its name
get_generator(name) == IF name \in GeneratorNames THEN Some(name) ELSE None

\* Result<_, String> of a generator or of get_param_int; "overflow" is the
\* usize subtraction 0 - 1 (a panic in a debug build, a loop bound of
\* 2^64 - 1 in a release build): no value is returned
Ok(v) == [status |-> "ok", v |-> v]

Err(msg) == [status |-> "err", v |-> msg]

Overflow == [status |-> "overflow", v |-> "attempt to subtract with overflow"]

\* get_param_int; a Float is held in tenths, `as usize` truncates it
get_param_int(params, key) ==
    IF key \notin DOMAIN params
    THEN Err("Missing or invalid " \o key \o " parameter")
    ELSE IF params[key].variant = "Integer"
    THEN IF params[key].v < 0 THEN Ok(0) ELSE Ok(params[key].v)
    ELSE IF params[key].variant = "Float"
    THEN IF params[key].v < 0 THEN Ok(0) ELSE Ok(params[key].v \div 10)
    ELSE Err("Missing or invalid " \o key \o " parameter")

get_param_string(params, key, default) ==
    IF key \in DOMAIN params /\ params[key].variant = "String"
    THEN params[key].v
    ELSE default

\* get_param_bool; a Boolean holds 1 for true and 0 for false
get_param_bool(params, key, default) ==
    IF key \in DOMAIN params /\ params[key].variant = "Boolean"
    THEN params[key].v = 1
    ELSE default

\* format!("{}{}", prefix, i)
node_id_1(prefix, i) == prefix \o ToString(i)

\* format!("e{}_{}", i, j)
edge_id_2(i, j) == "e" \o ToString(i) \o "_" \o ToString(j)

\* add_node called for ns[1], ns[2], ... in turn: under each id the node
\* added last
add_nodes_in_order(g, ns) ==
    LET ids == {ns[k].id : k \in DOMAIN ns}
        last_of(id) == CHOOSE k \in DOMAIN ns :
                           /\ ns[k].id = id
                           /\ \A l \in DOMAIN ns : ns[l].id = id => l <= k
    IN  [g EXCEPT !.nodes = [id \in ids |-> ns[last_of(id)]] @@ g.nodes]

\* add_edge called for es[1], es[2], ... in turn
add_edges_in_order(g, es) ==
    LET ids == {es[k].id : k \in DOMAIN es}
        last_of(id) == CHOOSE k \in DOMAIN es :
                           /\ es[k].id = id
                           /\ \A l \in DOMAIN es : es[l].id = id => l <= k
    IN  [g EXCEPT !.edges = [id \in ids |-> es[last_of(id)]] @@ g.edges]

\* the pairs <<i, j>> of `for i in 0..n { for j in 0..m { .. } }`, in the
\* order the loops visit them
loop2(n, m) == [k \in 1 .. n * m |-> <<(k - 1) \div m, (k - 1) % m>>]

\* the nodes added by the node loop of generate_complete, generate_path and
\* generate_cycle (for i in 0..n), in order
prefix_nodes(prefix, n) == [k \in 1 .. n |-> NodeNew(node_id_1(prefix, k - 1))]

\* the inner loop of generate_complete starting at 0 for undirected graphs too
first_j_always_zero(directed, i) == 0

\* line 68: where the inner loop of generate_complete starts
first_j(directed, i) == IF directed THEN 0 ELSE i + 1

\* the edges added by the loops of generate_complete (lines 67-76), in order
complete_edges(prefix, directed, n) ==
    LET visited(p) == p[2] >= first_j(directed, p[1]) /\ p[1] # p[2]
        ij == SelectSeq(loop2(n, n), visited)
    IN  [k \in DOMAIN ij |->
            EdgeNew(edge_id_2(ij[k][1], ij[k][2]), node_id_1(prefix, ij[k][1]),
                    node_id_1(prefix, ij[k][2]))]

generate_complete(params) ==
    LET n == get_param_int(params, "nodes") IN
    IF n.status # "ok" THEN n
    ELSE LET prefix == get_param_string(params, "prefix", "n")
             directed == get_param_bool(params, "directed", FALSE)
             nodes == add_nodes_in_order(GraphNew, prefix_nodes(prefix, n.v))
         IN  Ok(add_edges_in_order(nodes, complete_edges(prefix, directed, n.v)))

\* the edges added by the loop of generate_path (lines 95-100), for i in
\* 0..end
path_edges(prefix, end) ==
    [k \in 1 .. end |->
        EdgeNew(edge_id_2(k - 1, k), node_id_1(prefix, k - 1), node_id_1(prefix, k))]

\* generate_path; n - 1 is evaluated for n = 0 too
generate_path(params) ==
    LET n == get_param_int(params, "nodes") IN
    IF n.status # "ok" THEN n
    ELSE IF n.v = 0 THEN Overflow
    ELSE LET prefix == get_param_string(params, "prefix", "n")
             nodes == add_nodes_in_order(GraphNew, prefix_nodes(prefix, n.v))
         IN  Ok(add_edges_in_order(nodes, path_edges(prefix, n.v - 1)))

\* the successor without the wrap to node 0
cycle_next_unwrapped(i, n) == i + 1

\* lines 121-122: (i + 1) % n
cycle_next(i, n) == (i + 1) % n

\* the edges added by the loop of generate_cycle (lines 119-124), in order
cycle_edges(prefix, n) ==
    [k \in 1 .. n |->
        EdgeNew(edge_id_2(k - 1, cycle_next(k - 1, n)), node_id_1(prefix, k - 1),
                node_id_1(prefix, cycle_next(k - 1, n)))]

generate_cycle(params) ==
    LET n == get_param_int(params, "nodes") IN
    IF n.status # "ok" THEN n
    ELSE LET prefix == get_param_string(params, "prefix", "n")
             nodes == add_nodes_in_order(GraphNew, prefix_nodes(prefix, n.v))
         IN  Ok(add_edges_in_order(nodes, cycle_edges(prefix, n.v)))

\* format!("{}{}_{}", prefix, i, j)
node_id_2(prefix, i, j) == prefix \o ToString(i) \o "_" \o ToString(j)

\* the nodes added by the loops of generate_grid (lines 138-143), in order
grid_nodes(prefix, rows, cols) ==
    LET ij == loop2(rows, cols)
    IN  [k \in DOMAIN ij |-> NodeNew(node_id_2(prefix, ij[k][1], ij[k][2]))]

\* the inner horizontal loop running over every column
horizontal_end_inclusive(cols) == cols

\* line 147: the end of the inner horizontal loop, 0..cols-1
horizontal_end(cols) == cols - 1

\* the edges added by the horizontal loops of generate_grid (lines 146-160),
\* in order: in row i the edges eh{i}_{j} for j in 0..cols-1, then the
\* periodic edge ehp_{i} when requested (step j = horizontal_end(cols))
grid_horizontal(prefix, periodic, rows, cols) ==
    LET inner == horizontal_end(cols)
        visited(p) == p[2] < inner \/ periodic
        ij == SelectSeq(loop2(rows, inner + 1), visited)
    IN  [k \in DOMAIN ij |->
            IF ij[k][2] < inner
            THEN EdgeNew("eh" \o ToString(ij[k][1]) \o "_" \o ToString(ij[k][2]),
                         node_id_2(prefix, ij[k][1], ij[k][2]),
                         node_id_2(prefix, ij[k][1], ij[k][2] + 1))
            ELSE EdgeNew("ehp_" \o ToString(ij[k][1]),
                         node_id_2(prefix, ij[k][1], cols - 1),
                         node_id_2(prefix, ij[k][1], 0))]

\* the edges added by the vertical loops of generate_grid (lines 163-178), in
\* order: in column j the edges ev{i}_{j} for i in 0..rows-1, then the
\* periodic edge evp_{j} when requested (step i = rows - 1)
grid_vertical(prefix, periodic, rows, cols) ==
    LET inner == rows - 1
        visited(p) == p[2] < inner \/ periodic
        ji == SelectSeq(loop2(cols, inner + 1), visited)
    IN  [k \in DOMAIN ji |->
            IF ji[k][2] < inner
            THEN EdgeNew("ev" \o ToString(ji[k][2]) \o "_" \o ToString(ji[k][1]),
                         node_id_2(prefix, ji[k][2], ji[k][1]),
                         node_id_2(prefix, ji[k][2] + 1, ji[k][1]))
            ELSE EdgeNew("evp_" \o ToString(ji[k][1]),
                         node_id_2(prefix, rows - 1, ji[k][1]),
                         node_id_2(prefix, 0, ji[k][1]))]

\* generate_grid; cols - 1 is evaluated in the first row when cols = 0, and
\* rows - 1 in the first column when rows = 0
generate_grid(params) ==
    LET rows == get_param_int(params, "rows") IN
    IF rows.status # "ok" THEN rows
    ELSE LET cols == get_param_int(params, "cols") IN
    IF cols.status # "ok" THEN cols
    ELSE IF (rows.v > 0 /\ cols.v = 0) \/ (cols.v > 0 /\ rows.v = 0) THEN Overflow
    ELSE LET prefix == get_param_string(params, "prefix", "n")
             periodic == get_param_bool(params, "periodic", FALSE)
             nodes == add_nodes_in_order(GraphNew, grid_nodes(prefix, rows.v, cols.v))
             horizontal == add_edges_in_order(
                               nodes, grid_horizontal(prefix, periodic, rows.v, cols.v))
         IN  Ok(add_edges_in_order(
                    horizontal, grid_vertical(prefix, periodic, rows.v, cols.v)))

\* the call f(&params) of a GeneratorFn found by get_generator; star, tree
\* and barabasi_albert are registered but never called by the environment
call_generator(f, params) ==
    CASE f = "complete" -> generate_complete(params)
      [] f = "path" -> generate_path(params)
      [] f = "cycle" -> generate_cycle(params)
      [] f = "grid" -> generate_grid(params)

\* ------------------------------------------------------------------------
\* lib.rs: GGLEngine::generate_from_ggl_native
\* ------------------------------------------------------------------------

\* GGLStatement
NodeDecl(node) == [kind |-> "NodeDecl", node |-> node]

EdgeDecl(edge) == [kind |-> "EdgeDecl", edge |-> edge]

GenerateStmt(name, params) ==
    [kind |-> "GenerateStmt", name |-> name, params |-> params]

RuleDefStmt(rule_def) == [kind |-> "RuleDefStmt", rule_def |-> rule_def]

ApplyRuleStmt(rule_name, its) ==
    [kind |-> "ApplyRuleStmt", rule_name |-> rule_name, iterations |-> its]

\* line 283: the program text either fails to parse or yields its statements
parse_ggl(code) == IF code.ok THEN Ok(code.statements) ELSE Err("Parse error")

\* the rule map left as it is when a program starts
rules_at_start_kept(rs) == rs

\* line 287: self.rules.clear()
rules_at_start(rs) == EmptyMap

\* the engine reset before the program text is parsed
engine_entry_reset_first(g, rs, parsed) ==
    [graph |-> GraphNew, rules |-> rules_at_start(rs),
     status |-> IF parsed.status = "err" THEN "parse_error" ELSE "run"]

\* lines 283-287: the parse error returned by `?`, else the reset
engine_entry(g, rs, parsed) ==
    IF parsed.status = "err"
    THEN [graph |-> g, rules |-> rs, status |-> "parse_error"]
    ELSE [graph |-> GraphNew, rules |-> rules_at_start(rs), status |-> "run"]

\* lines 293-297: Node::new(id).with_type(node_type.unwrap_or_default())
\* .with_metadata_map(attributes)
node_of_decl(node) ==
    [NodeWithType(NodeNew(node.id),
                  IF node.node_type = None THEN "" ELSE node.node_type[1])
        EXCEPT !.metadata = node.attributes]

\* lines 300-303: Edge::new(id, source, target).with_metadata_map(attributes)
edge_of_decl(edge) ==
    [EdgeNew(edge.id, edge.source, edge.target) EXCEPT !.metadata = edge.attributes]

\* lines 311-316: every node, then every edge of the fragment added to the
\* graph, in the iteration orders nord and eord of the fragment's maps
merge(g, generated, nord, eord) ==
    add_edges_in_order(
        add_nodes_in_order(g, [k \in DOMAIN nord |-> generated.nodes[nord[k]]]),
        [k \in DOMAIN eord |-> generated.edges[eord[k]]])

\* a failing statement undoing the statements before it
stmt_failure_rollback(g, rs, status) ==
    [graph |-> GraphNew, rules |-> EmptyMap, status |-> status]

\* `?` and `return Err(..)` in the statement loop: the engine is left as it
\* is at that point
stmt_failure(g, rs, status) == [graph |-> g, rules |-> rs, status |-> status]

\* ------------------------------------------------------------------------
\* Inputs: the nodes, edges and rules the environment uses
\* ------------------------------------------------------------------------

Integer(v) == MetadataValue("Integer", v)

Boolean(v) == MetadataValue("Boolean", v)

Float(tenths) == MetadataValue("Float", tenths)

StringValue(v) == MetadataValue("String", v)

NodeIds == {"n1", "n2", "B1"}

EdgeIds == {"e1", "e"}

Attr(k, v) == Put(EmptyMap, k, v)

\* the node records handed to add_node
NodeInputs ==
    {NodeNew(id) : id \in NodeIds}
    \cup {NodeWithType(NodeNew("n1"), "A"), NodeWithType(NodeNew("n2"), "C")}
    \cup {NodeWithMetadata(NodeWithType(NodeNew("n1"), "person"), "age", Integer(30)),
          NodeWithMetadata(NodeWithType(NodeNew("n2"), "person"), "age", Integer(25))}

\* the edge records handed to add_edge (endpoints need not exist)
EdgeInputs == {EdgeNew(id, s, t) : id \in EdgeIds, s \in NodeIds, t \in NodeIds}

\* test_simple_rule: one node replaced by two connected nodes
RuleSplit ==
    Rule("split",
         Pattern(<<NodeDeclaration("A", None, EmptyMap)>>, <<>>),
         Pattern(<<NodeDeclaration("B1", None, EmptyMap),
                   NodeDeclaration("B2", None, EmptyMap)>>,
                 <<EdgeDeclaration("e", "B1", "B2", EmptyMap)>>))

\* test_typed_node_rule: a node of type A rewritten to type B
RuleTypeMatch ==
    Rule("type_match",
         Pattern(<<NodeDeclaration("N", Some("A"), EmptyMap)>>, <<>>),
         Pattern(<<NodeDeclaration("N", Some("B"), EmptyMap)>>, <<>>))

\* lib.rs lines 32-35: rule add_metadata
RuleAddMetadata ==
    Rule("add_metadata",
         Pattern(<<NodeDeclaration("N", Some("person"), EmptyMap)>>, <<>>),
         Pattern(<<NodeDeclaration("N", Some("person"), Attr("active", Boolean(1)))>>,
                 <<>>))

\* two nodes kept and joined by an attributed edge
RuleLink ==
    Rule("link",
         Pattern(<<NodeDeclaration("A", None, EmptyMap),
                   NodeDeclaration("B", None, EmptyMap)>>, <<>>),
         Pattern(<<NodeDeclaration("A", None, EmptyMap),
                   NodeDeclaration("B", None, EmptyMap)>>,
                 <<EdgeDeclaration("e", "A", "B", Attr("w", Integer(1)))>>))

\* two joined nodes kept, their edge not in the RHS
RuleUnlink ==
    Rule("unlink",
         Pattern(<<NodeDeclaration("A", None, EmptyMap),
                   NodeDeclaration("B", None, EmptyMap)>>,
                 <<EdgeDeclaration("E", "A", "B", EmptyMap)>>),
         Pattern(<<NodeDeclaration("A", None, EmptyMap),
                   NodeDeclaration("B", None, EmptyMap)>>, <<>>))

\* the first of two nodes deleted, the RHS edge still naming it
RuleDropSource ==
    Rule("drop_source",
         Pattern(<<NodeDeclaration("A", None, EmptyMap),
                   NodeDeclaration("B", None, EmptyMap)>>, <<>>),
         Pattern(<<NodeDeclaration("B", None, EmptyMap)>>,
                 <<EdgeDeclaration("e", "A", "B", EmptyMap)>>))

\* a node selected by type and attribute value, deleted
RuleRetire ==
    Rule("retire",
         Pattern(<<NodeDeclaration("N", Some("person"), Attr("age", Integer(30)))>>, <<>>),
         Pattern(<<>>, <<>>))

\* an LHS edge template whose target is no LHS node template
RuleMalformed ==
    Rule("malformed",
         Pattern(<<NodeDeclaration("A", None, EmptyMap)>>,
                 <<EdgeDeclaration("E", "A", "Z", EmptyMap)>>),
         Pattern(<<NodeDeclaration("A", None, EmptyMap)>>, <<>>))

\* the same malformed LHS edge template behind a typed node template
RuleMalformedTyped ==
    Rule("malformed_typed",
         Pattern(<<NodeDeclaration("A", Some("person"), EmptyMap)>>,
                 <<EdgeDeclaration("E", "A", "Z", EmptyMap)>>),
         Pattern(<<NodeDeclaration("A", Some("person"), EmptyMap)>>, <<>>))

\* an LHS without node templates
RuleSpawn ==
    Rule("spawn",
         Pattern(<<>>, <<>>),
         Pattern(<<NodeDeclaration("B2", None, EmptyMap)>>, <<>>))

\* a well-formed LHS edge template followed by a malformed one
RuleMalformedSecond ==
    Rule("malformed_second",
         Pattern(<<NodeDeclaration("A", None, EmptyMap),
                   NodeDeclaration("B", None, EmptyMap)>>,
                 <<EdgeDeclaration("E1", "A", "B", EmptyMap),
                   EdgeDeclaration("E2", "A", "Z", EmptyMap)>>),
         Pattern(<<NodeDeclaration("A", None, EmptyMap),
                   NodeDeclaration("B", None, EmptyMap)>>, <<>>))

\* an LHS without node templates that holds an edge template
RuleSpawnEdge ==
    Rule("spawn_edge",
         Pattern(<<>>, <<EdgeDeclaration("E", "A", "B", EmptyMap)>>),
         Pattern(<<NodeDeclaration("B2", None, EmptyMap)>>, <<>>))

Rules == {RuleSplit, RuleTypeMatch, RuleAddMetadata, RuleLink, RuleUnlink,
          RuleDropSource, RuleRetire, RuleMalformed, RuleMalformedTyped,
          RuleSpawn, RuleMalformedSecond, RuleSpawnEdge}

NoRule == Rule("", Pattern(<<>>, <<>>), Pattern(<<>>, <<>>))

\* the parameter map of a generate statement: each key absent (None) or
\* present with a value
Params(nodes, rows, cols, directed, periodic, prefix) ==
    LET opt == [nodes |-> nodes, rows |-> rows, cols |-> cols,
                directed |-> directed, periodic |-> periodic, prefix |-> prefix]
    IN  [k \in {x \in DOMAIN opt : opt[x] # None} |-> opt[k][1]]

\* values of "nodes": negative, 0..MaxN, the float 2.5, a boolean
NodesInputs ==
    {None, Some(Float(25)), Some(Boolean(1))}
    \cup {Some(Integer(n)) : n \in -1 .. MaxN}

DimInputs == {None} \cup {Some(Integer(n)) : n \in 0 .. MaxDim}

FlagInputs == {None, Some(Boolean(1)), Some(Boolean(0))}

PrefixInputs == {None, Some(StringValue("v"))}

ParamInputs ==
    {Params(nodes, rows, cols, directed, periodic, prefix) :
        nodes \in NodesInputs, rows \in DimInputs, cols \in DimInputs,
        directed \in FlagInputs, periodic \in FlagInputs, prefix \in PrefixInputs}

\* the statements of the programs handed to the engine: a typed node n0 and
\* an edge e0_1 that collide with ids of complete {nodes: 2}, an unknown
\* generator, a generator call without `nodes`, two definitions of rule r
\* (one deleting a node of type A, one with a malformed LHS) and its
\* application
StmtInputs ==
    {NodeDecl(NodeDeclaration("n0", Some("A"), EmptyMap)),
     EdgeDecl(EdgeDeclaration("e0_1", "n1", "n0", Attr("w", Integer(1)))),
     GenerateStmt("complete", Params(Some(Integer(2)), None, None, None, None, None)),
     GenerateStmt("nosuch", Params(Some(Integer(2)), None, None, None, None, None)),
     GenerateStmt("complete", EmptyMap),
     RuleDefStmt(Rule("r", Pattern(<<NodeDeclaration("N", Some("A"), EmptyMap)>>, <<>>),
                      Pattern(<<>>, <<>>))),
     RuleDefStmt(Rule("r", RuleMalformed.lhs, RuleMalformed.rhs)),
     ApplyRuleStmt("r", 1)}

Programs == UNION {[1 .. n -> StmtInputs] : n \in 0 .. MaxStmts}

\* the program texts: one that does not parse, and one per program
CodeInputs ==
    {[ok |-> FALSE, statements |-> <<>>]}
    \cup {[ok |-> TRUE, statements |-> p] : p \in Programs}

\* the generator names the environment asks for
GeneratorInputs == {"complete", "path", "cycle", "grid", "nosuch"}

NoMatch == Match(EmptyMap, EmptyMap)

\* the graphs handed to the matcher on its own: node n1 (untyped, or a person
\* of age Integer 30 or Float 30.0), optionally n2 and B1, and for each edge
\* id of EdgeIds no edge or one of three endpoint pairs
MatchNodeInputs ==
    [n1 |-> {Some(NodeNew("n1")),
             Some(NodeWithMetadata(NodeWithType(NodeNew("n1"), "person"),
                                   "age", Integer(30))),
             Some(NodeWithMetadata(NodeWithType(NodeNew("n1"), "person"),
                                   "age", Float(300)))},
     n2 |-> {None, Some(NodeNew("n2")),
             Some(NodeWithMetadata(NodeWithType(NodeNew("n2"), "person"),
                                   "age", Integer(30)))},
     B1 |-> {None, Some(NodeNew("B1"))}]

MatchEndpointInputs == {<<"n1", "n2">>, <<"n2", "n1">>, <<"n1", "B1">>}

MatchInputGraphs ==
    {Graph([id \in {x \in NodeIds : ns[x] # None} |-> ns[id][1]],
           [id \in {x \in EdgeIds : es[x] # None} |->
                EdgeNew(id, es[id][1][1], es[id][1][2])]) :
        ns \in {f \in [NodeIds -> UNION {MatchNodeInputs[x] : x \in NodeIds}] :
                   \A x \in NodeIds : f[x] \in MatchNodeInputs[x]},
        es \in [EdgeIds -> {None} \cup {Some(p) : p \in MatchEndpointInputs}]}

\* two templates bound to parallel edges
PatternParallel ==
    Pattern(<<NodeDeclaration("A", None, EmptyMap),
              NodeDeclaration("B", None, EmptyMap)>>,
            <<EdgeDeclaration("E1", "A", "B", EmptyMap),
              EdgeDeclaration("E2", "A", "B", EmptyMap)>>)

\* two templates bound to opposite edges
PatternOpposite ==
    Pattern(<<NodeDeclaration("A", None, EmptyMap),
              NodeDeclaration("B", None, EmptyMap)>>,
            <<EdgeDeclaration("E1", "A", "B", EmptyMap),
              EdgeDeclaration("E2", "B", "A", EmptyMap)>>)

\* an unconstrained anchor followed by a person of age Integer 30
PatternNextToPerson ==
    Pattern(<<NodeDeclaration("A", None, EmptyMap),
              NodeDeclaration("N", Some("person"), Attr("age", Integer(30)))>>,
            <<>>)

\* three unconstrained node templates
PatternThree ==
    Pattern(<<NodeDeclaration("A", None, EmptyMap),
              NodeDeclaration("B", None, EmptyMap),
              NodeDeclaration("C", None, EmptyMap)>>, <<>>)

\* two edge templates under one id
PatternSameEdgeId ==
    Pattern(<<NodeDeclaration("A", None, EmptyMap),
              NodeDeclaration("B", None, EmptyMap)>>,
            <<EdgeDeclaration("E", "A", "B", EmptyMap),
              EdgeDeclaration("E", "B", "A", EmptyMap)>>)

\* a person of age Integer 30 joined both ways to an unconstrained node
PatternPersonLinked ==
    Pattern(<<NodeDeclaration("N", Some("person"), Attr("age", Integer(30))),
              NodeDeclaration("B", None, EmptyMap)>>,
            <<EdgeDeclaration("E1", "N", "B", EmptyMap),
              EdgeDeclaration("E2", "B", "N", EmptyMap)>>)

\* no node template, one edge template
PatternEdgeOnly ==
    Pattern(<<>>, <<EdgeDeclaration("E", "A", "B", EmptyMap)>>)

\* the patterns handed to the matcher on its own
PatternInputs ==
    {RuleUnlink.lhs, RuleRetire.lhs, RuleMalformed.lhs, PatternParallel,
     PatternOpposite, PatternNextToPerson, PatternThree, PatternSameEdgeId,
     PatternPersonLinked, PatternEdgeOnly}

\* ------------------------------------------------------------------------
\* State
\* ------------------------------------------------------------------------

VARIABLES
    graph,       \* the Graph the caller holds
    pc,          \* "idle", or the position inside Rule::apply, or "done"
    rule,        \* self of the running Rule::apply
    iterations,  \* argument of the running Rule::apply
    round,       \* iterations of the for loop completed
    matches,     \* Vec<Match> returned by the matcher pass of this round
    next_match,  \* index in matches of the next Match to rewrite
    result,      \* "" while running, "ok" or "err" once apply has returned
    graph0,      \* the graph when Rule::apply was called
    last,        \* the last operation: its name, the graph before it, its arguments
    passes,      \* matcher passes run by the current Rule::apply
    rules,       \* GGLEngine.rules: rule name -> Rule
    program,     \* the parsed statements of the running generate_from_ggl call
    ip,          \* index in program of the statement being executed
    epc,         \* "ready", "exec", "apply" or "returned": position in the call
    eresult,     \* outcome of the last generate_from_ggl call
    submitted,   \* statements handed to the engine so far, over all calls
    elast,       \* the statement being executed and the engine state before it
    rules0,      \* names of the rules held when the running call was made
    gen_in,      \* a generator call: its name and parameter map
    gen_out,     \* the Result<Graph, String> of that generator call
    match_in,    \* a matcher call: its name, graph, pattern, iteration orders, anchor
    match_out    \* what that matcher call returned

applyVars == <<pc, rule, iterations, round, matches, next_match, result,
               graph0, last, passes>>

engineVars == <<rules, program, ip, epc, eresult, submitted, elast, rules0>>

genVars == <<gen_in, gen_out>>

matchVars == <<match_in, match_out>>

vars == <<graph, applyVars, engineVars, genVars, matchVars>>

Last(op, pre, id, m) == [op |-> op, pre |-> pre, id |-> id, m |-> m]

\* Rule::apply is not running
ApplyInit ==
    /\ pc = "idle"
    /\ rule = NoRule
    /\ iterations = 0
    /\ round = 0
    /\ matches = <<>>
    /\ next_match = 1
    /\ result = ""
    /\ graph0 = GraphNew
    /\ last = Last("new", GraphNew, "", NoMatch)
    /\ passes = 0

ELast(op, g, rs) == [op |-> op, graph |-> g, rules |-> rs]

\* GGLEngine::new: empty graph, no rules, no call made
EngineInit ==
    /\ rules = EmptyMap
    /\ program = <<>>
    /\ ip = 0
    /\ epc = "ready"
    /\ eresult = ""
    /\ submitted = 0
    /\ elast = ELast("new", GraphNew, EmptyMap)
    /\ rules0 = {}

\* no generator called
GenInit ==
    /\ gen_in = [name |-> "", params |-> EmptyMap]
    /\ gen_out = [called |-> FALSE, status |-> "", graph |-> GraphNew]

\* no matcher call made on its own
MatchInit ==
    /\ match_in = [op |-> "", graph |-> GraphNew, pattern |-> Pattern(<<>>, <<>>),
                   nord |-> <<>>, eord |-> <<>>, start_node |-> ""]
    /\ match_out = [called |-> FALSE, status |-> "", matches |-> <<>>]

Init ==
    /\ graph = GraphNew
    /\ ApplyInit
    /\ EngineInit
    /\ GenInit
    /\ MatchInit

ApplyIdle == UNCHANGED <<pc, rule, iterations, round, matches, next_match,
                         result, graph0, passes, engineVars, genVars, matchVars>>

\* Graph::add_node
AddNode ==
    /\ pc = "idle"
    /\ \E n \in NodeInputs :
          /\ graph' = add_node(graph, n)
          /\ last' = Last("add_node", graph, n.id, NoMatch)
    /\ ApplyIdle

\* Graph::add_edge
AddEdge ==
    /\ pc = "idle"
    /\ \E e \in EdgeInputs :
          /\ Cardinality((DOMAIN graph.edges) \cup {e.id}) <= MaxEdges
          /\ graph' = add_edge(graph, e)
          /\ last' = Last("add_edge", graph, e.id, NoMatch)
    /\ ApplyIdle

\* Graph::remove_node, of a present or an absent id
RemoveNode ==
    /\ pc = "idle"
    /\ \E id \in NodeIds :
          /\ graph' = remove_node(graph, id)
          /\ last' = Last("remove_node", graph, id, NoMatch)
    /\ ApplyIdle

\* Graph::remove_edge
RemoveEdge ==
    /\ pc = "idle"
    /\ \E id \in EdgeIds :
          /\ graph' = remove_edge(graph, id)
          /\ last' = Last("remove_edge", graph, id, NoMatch)
    /\ ApplyIdle

\* loop counter and bound off by one
loop_continues_inclusive(r, k) == r <= k

\* line 14: for _ in 0..iterations, after r completed iterations
loop_continues(r, k) == r < k

\* call of Rule::apply(graph, k)
ApplyCall ==
    /\ pc = "idle"
    /\ \E r \in Rules, k \in 0..MaxIter :
          /\ rule' = r
          /\ iterations' = k
    /\ pc' = "loop"
    /\ round' = 0
    /\ graph0' = graph
    /\ last' = Last("apply", graph, "", NoMatch)
    /\ passes' = 0
    /\ UNCHANGED <<graph, matches, next_match, result, engineVars, genVars, matchVars>>

\* lines 14-18: one more iteration: the matcher pass, then return the error,
\* break, or enter the for loop over the matches
ApplyFindMatches ==
    /\ pc = "loop"
    /\ loop_continues(round, iterations)
    /\ \E nord \in Perms(DOMAIN graph.nodes), eord \in Perms(DOMAIN graph.edges) :
          LET r == find_matches(graph, rule.lhs, nord, eord)
              c == after_find(r) IN
          /\ matches' = r.matches
          /\ pc' = IF c = "for" THEN "for" ELSE "done"
          /\ result' = IF c = "err" THEN "err" ELSE IF c = "break" THEN "ok" ELSE ""
    /\ next_match' = 1
    /\ last' = Last("find_matches", graph, "", NoMatch)
    /\ passes' = passes + 1
    /\ UNCHANGED <<graph, rule, iterations, round, graph0, engineVars, genVars, matchVars>>

\* lines 20-22: the rewrite of the next Match of this round
ApplyTransformation ==
    /\ pc = "for"
    /\ graph' = apply_transformation(graph, rule.rhs, matches[next_match])
    /\ last' = Last("apply_transformation", graph, "", matches[next_match])
    /\ IF next_match < Len(matches)
       THEN /\ next_match' = next_match + 1
            /\ UNCHANGED <<pc, round>>
       ELSE /\ next_match' = 1
            /\ round' = round + 1
            /\ pc' = "loop"
    /\ UNCHANGED <<rule, iterations, matches, result, graph0, passes,
                   engineVars, genVars, matchVars>>

\* line 25: the iterations are used up
ApplyReturn ==
    /\ pc = "loop"
    /\ ~loop_continues(round, iterations)
    /\ pc' = "done"
    /\ result' = "ok"
    /\ last' = Last("return", graph, "", NoMatch)
    /\ UNCHANGED <<graph, rule, iterations, round, matches, next_match, graph0,
                   passes, engineVars, genVars, matchVars>>

Next ==
    \/ AddNode
    \/ AddEdge
    \/ RemoveNode
    \/ RemoveEdge
    \/ ApplyCall
    \/ ApplyFindMatches
    \/ ApplyTransformation
    \/ ApplyReturn

Spec == Init /\ [][Next]_vars

\* what a lookup and call of a generator returns: "unknown" when
\* get_generator has no such name, else the generator's Result
generator_result(name, params) ==
    LET f == get_generator(name) IN
    IF f = None
    THEN [called |-> TRUE, status |-> "unknown", graph |-> GraphNew]
    ELSE LET r == call_generator(f[1], params) IN
         [called |-> TRUE, status |-> r.status,
          graph |-> IF r.status = "ok" THEN r.v ELSE GraphNew]

\* one lookup and call of a generator
GenerateCall ==
    /\ ~gen_out.called
    /\ \E name \in GeneratorInputs, params \in ParamInputs :
           /\ gen_in' = [name |-> name, params |-> params]
           /\ gen_out' = generator_result(name, params)
    /\ UNCHANGED <<graph, applyVars, engineVars, matchVars>>

GenNext == GenerateCall

\* a generator on its own: one call with any name and parameters
GenSpec == Init /\ [][GenNext]_vars

\* one attempt of the matcher: match_pattern_from_node for an anchor of the
\* graph, under iteration orders of its nodes and edges
MatchFromNode ==
    /\ ~match_out.called
    /\ \E g \in MatchInputGraphs, pattern \in PatternInputs :
       \E nord \in Perms(DOMAIN g.nodes), eord \in Perms(DOMAIN g.edges) :
       \E start_node \in DOMAIN g.nodes :
           LET r == match_pattern_from_node(g, start_node, pattern, nord, eord) IN
           /\ match_in' = [op |-> "match_pattern_from_node", graph |-> g,
                           pattern |-> pattern, nord |-> nord, eord |-> eord,
                           start_node |-> start_node]
           /\ match_out' = [called |-> TRUE, status |-> r.status,
                            matches |-> IF r.status = "some" THEN <<r.m>> ELSE <<>>]
    /\ UNCHANGED <<graph, applyVars, engineVars, genVars>>

\* one matcher pass: find_matches
FindMatches ==
    /\ ~match_out.called
    /\ \E g \in MatchInputGraphs, pattern \in PatternInputs :
       \E nord \in Perms(DOMAIN g.nodes), eord \in Perms(DOMAIN g.edges) :
           LET r == find_matches(g, pattern, nord, eord) IN
           /\ match_in' = [op |-> "find_matches", graph |-> g,
                           pattern |-> pattern, nord |-> nord, eord |-> eord,
                           start_node |-> ""]
           /\ match_out' = [called |-> TRUE,
                            status |-> IF r.ok THEN "ok" ELSE "err",
                            matches |-> r.matches]
    /\ UNCHANGED <<graph, applyVars, engineVars, genVars>>

MatchNext ==
    \/ MatchFromNode
    \/ FindMatches

\* the matcher on its own: one call on any input graph and pattern
MatchSpec == Init /\ [][MatchNext]_vars

\* a call of generate_from_ggl_native up to the statement loop
EngineCall ==
    /\ epc = "ready"
    /\ pc = "idle"
    /\ \E code \in CodeInputs :
           LET e == engine_entry(graph, rules, parse_ggl(code)) IN
           /\ submitted + Len(code.statements) <= MaxStmts
           /\ submitted' = submitted + Len(code.statements)
           /\ graph' = e.graph
           /\ rules' = e.rules
           /\ IF e.status = "run"
              THEN /\ epc' = "run"
                   /\ eresult' = ""
                   /\ program' = code.statements
                   /\ ip' = 1
              ELSE /\ epc' = "ready"
                   /\ eresult' = e.status
                   /\ program' = <<>>
                   /\ ip' = 0
    /\ elast' = ELast("call", graph, rules)
    /\ rules0' = DOMAIN rules
    /\ UNCHANGED <<applyVars, genVars, matchVars>>

\* the statement loop is at a statement of this kind
AtStatement(kind) ==
    /\ epc = "run"
    /\ pc = "idle"
    /\ ip \in DOMAIN program
    /\ program[ip].kind = kind

\* the loop goes on to the next statement
EngineContinue ==
    /\ ip' = ip + 1
    /\ UNCHANGED <<epc, eresult>>

\* the call returns the error; graph and rules as stmt_failure leaves them
EngineFail(status) ==
    LET f == stmt_failure(graph, rules, status) IN
    /\ graph' = f.graph
    /\ rules' = f.rules
    /\ epc' = "ready"
    /\ eresult' = f.status
    /\ ip' = ip

\* lines 292-298
EngineNodeDecl ==
    /\ AtStatement("NodeDecl")
    /\ graph' = add_node(graph, node_of_decl(program[ip].node))
    /\ EngineContinue
    /\ elast' = ELast("NodeDecl", graph, rules)
    /\ UNCHANGED <<rules, program, submitted, rules0, applyVars, genVars, matchVars>>

\* lines 299-304
EngineEdgeDecl ==
    /\ AtStatement("EdgeDecl")
    /\ graph' = add_edge(graph, edge_of_decl(program[ip].edge))
    /\ EngineContinue
    /\ elast' = ELast("EdgeDecl", graph, rules)
    /\ UNCHANGED <<rules, program, submitted, rules0, applyVars, genVars, matchVars>>

\* lines 305-320
EngineGenerate ==
    /\ AtStatement("GenerateStmt")
    /\ LET r == generator_result(program[ip].name, program[ip].params) IN
       /\ r.status \in {"unknown", "err", "ok"}
       /\ IF r.status = "unknown" THEN EngineFail("unknown_generator")
          ELSE IF r.status = "err" THEN EngineFail("generator_error")
          ELSE /\ \E nord \in Perms(DOMAIN r.graph.nodes),
                     eord \in Perms(DOMAIN r.graph.edges) :
                       graph' = merge(graph, r.graph, nord, eord)
               /\ EngineContinue
               /\ UNCHANGED rules
    /\ elast' = ELast("GenerateStmt", graph, rules)
    /\ UNCHANGED <<program, submitted, rules0, applyVars, genVars, matchVars>>

\* lines 321-328
EngineRuleDef ==
    /\ AtStatement("RuleDefStmt")
    /\ rules' = Put(rules, program[ip].rule_def.name,
                    Rule(program[ip].rule_def.name, program[ip].rule_def.lhs,
                         program[ip].rule_def.rhs))
    /\ EngineContinue
    /\ elast' = ELast("RuleDefStmt", graph, rules)
    /\ UNCHANGED <<graph, program, submitted, rules0, applyVars, genVars, matchVars>>

\* lines 329-335: the rule is looked up; Rule::apply starts, or the call
\* returns "Unknown rule"
EngineApplyRule ==
    /\ AtStatement("ApplyRuleStmt")
    /\ IF program[ip].rule_name \in DOMAIN rules
       THEN /\ rule' = rules[program[ip].rule_name]
            /\ iterations' = program[ip].iterations
            /\ pc' = "loop"
            /\ round' = 0
            /\ graph0' = graph
            /\ last' = Last("apply", graph, "", NoMatch)
            /\ passes' = 0
            /\ UNCHANGED <<graph, rules, ip, epc, eresult, matches, next_match,
                           result>>
       ELSE /\ EngineFail("unknown_rule")
            /\ UNCHANGED applyVars
    /\ elast' = ELast("ApplyRuleStmt", graph, rules)
    /\ UNCHANGED <<program, submitted, rules0, genVars, matchVars>>

\* lines 331-332: Rule::apply has returned; its error is returned by `?`
EngineApplyDone ==
    /\ epc = "run"
    /\ pc = "done"
    /\ IF result = "err"
       THEN EngineFail("rule_error")
       ELSE /\ EngineContinue
            /\ UNCHANGED <<graph, rules>>
    /\ pc' = "idle"
    /\ rule' = NoRule
    /\ iterations' = 0
    /\ round' = 0
    /\ matches' = <<>>
    /\ next_match' = 1
    /\ result' = ""
    /\ graph0' = GraphNew
    /\ last' = Last("new", GraphNew, "", NoMatch)
    /\ passes' = 0
    /\ UNCHANGED <<program, submitted, elast, rules0, genVars, matchVars>>

\* line 341: the statements are used up, the graph is serialized
EngineReturn ==
    /\ epc = "run"
    /\ pc = "idle"
    /\ ip > Len(program)
    /\ epc' = "ready"
    /\ eresult' = "ok"
    /\ UNCHANGED <<graph, rules, program, ip, submitted, elast, rules0,
                   applyVars, genVars, matchVars>>

EngineNext ==
    \/ EngineCall
    \/ EngineNodeDecl
    \/ EngineEdgeDecl
    \/ EngineGenerate
    \/ EngineRuleDef
    \/ EngineApplyRule
    \/ ApplyFindMatches
    \/ ApplyTransformation
    \/ ApplyReturn
    \/ EngineApplyDone
    \/ EngineReturn

\* the engine: calls of generate_from_ggl_native, one after the other
EngineSpec == Init /\ [][EngineNext]_vars

\* the graphs handed to Rule::apply on its own: n1 and n2 absent or as any of
\* their records in NodeInputs, at most MaxEdges of two opposite edges
ApplyInputEdges == {EdgeNew("e1", "n1", "n2"), EdgeNew("e", "n2", "n1")}

ApplyInputGraphs ==
    {Graph(ns, [k \in {e.id : e \in T} |-> CHOOSE e \in T : e.id = k]) :
        ns \in UNION {{f \in [S -> NodeInputs] : \A id \in S : f[id].id = id} :
                         S \in SUBSET {"n1", "n2"}},
        T \in {U \in SUBSET ApplyInputEdges : Cardinality(U) <= MaxEdges}}

ApplyInitGraph ==
    /\ graph \in ApplyInputGraphs
    /\ ApplyInit
    /\ EngineInit
    /\ GenInit
    /\ MatchInit

ApplyNext ==
    \/ ApplyCall
    \/ ApplyFindMatches
    \/ ApplyTransformation
    \/ ApplyReturn

\* Rule::apply on its own: it runs sequentially, so a step that can be taken
\* is taken
FairSpec ==
    /\ ApplyInitGraph
    /\ [][ApplyNext]_vars
    /\ WF_vars(ApplyFindMatches)
    /\ WF_vars(ApplyTransformation)
    /\ WF_vars(ApplyReturn)

\* ------------------------------------------------------------------------
\* Properties
\* ------------------------------------------------------------------------

Rewritten == last.op = "apply_transformation"

NodeMappingValues(m) == Range(m.node_mapping)

\* C1: in the list of Matches returned by one matcher pass, the value sets of
\* the node mappings of any two distinct Matches are disjoint.
C1_MatchesDisjoint ==
    \A i \in DOMAIN matches : \A j \in DOMAIN matches :
        i # j => NodeMappingValues(matches[i]) \cap NodeMappingValues(matches[j]) = {}

Incident(e, n) == e.source = n \/ e.target = n

\* C2: after remove_node(n) the node n is absent, no remaining edge has source
\* or target n, and every edge not incident to n and every other node is
\* still present and unchanged (dangling edges included).
C2_RemoveNodeCascade ==
    last.op = "remove_node" =>
        LET n == last.id  pre == last.pre IN
        /\ n \notin DOMAIN graph.nodes
        /\ \A k \in DOMAIN graph.edges : ~Incident(graph.edges[k], n)
        /\ \A k \in DOMAIN pre.edges :
              ~Incident(pre.edges[k], n) =>
                  k \in DOMAIN graph.edges /\ graph.edges[k] = pre.edges[k]
        /\ \A x \in DOMAIN pre.nodes :
              x # n => x \in DOMAIN graph.nodes /\ graph.nodes[x] = pre.nodes[x]
        /\ DOMAIN graph.nodes \subseteq DOMAIN pre.nodes
        /\ DOMAIN graph.edges \subseteq DOMAIN pre.edges

\* a present node removed together with an edge of which it is the target,
\* the edge's source being absent
C2_Witness ==
    /\ last.op = "remove_node"
    /\ last.id \in DOMAIN last.pre.nodes
    /\ \E k \in DOMAIN last.pre.edges :
          /\ last.pre.edges[k].target = last.id
          /\ last.pre.edges[k].source # last.id
          /\ last.pre.edges[k].source \notin DOMAIN last.pre.nodes
    /\ \E x \in DOMAIN last.pre.nodes : x # last.id

\* the matcher finds no Match of lhs in g, whatever the iteration orders
ZeroMatches(g, lhs) ==
    \A nord \in Perms(DOMAIN g.nodes), eord \in Perms(DOMAIN g.edges) :
        LET r == find_matches(g, lhs, nord, eord) IN r.ok /\ Len(r.matches) = 0

\* C3: if the LHS has zero matches in G, Rule::apply(G, k) returns success and
\* leaves the node map and the edge map unchanged, for every k.
C3_NoMatchNoChange ==
    (pc = "done" /\ ZeroMatches(graph0, rule.lhs)) =>
        /\ result = "ok"
        /\ graph.nodes = graph0.nodes
        /\ graph.edges = graph0.edges

\* apply with a positive iteration count has returned on a graph that holds
\* nodes and edges, none of them matching
C3_Witness ==
    /\ pc = "done"
    /\ iterations >= 1
    /\ DOMAIN graph0.nodes # {}
    /\ DOMAIN graph0.edges # {}
    /\ rule.lhs.nodes # <<>>
    /\ ZeroMatches(graph0, rule.lhs)

\* C4: with a node of type A and a node of type C, the rule N:A -> N:B applied
\* once makes the type-A node have type B and leaves the type-C node.
C4_TypedRewrite ==
    (/\ pc = "done"
     /\ rule = RuleTypeMatch
     /\ iterations = 1
     /\ \E a \in DOMAIN graph0.nodes : graph0.nodes[a].type = "A"
     /\ \E c \in DOMAIN graph0.nodes : graph0.nodes[c].type = "C") =>
        \A n \in DOMAIN graph0.nodes :
            /\ graph0.nodes[n].type = "A" =>
                  n \in DOMAIN graph.nodes /\ graph.nodes[n].type = "B"
            /\ graph0.nodes[n].type = "C" =>
                  n \in DOMAIN graph.nodes /\ graph.nodes[n].type = "C"

\* C5: two declared person nodes with their own attributes, rule add_metadata
\* applied 1 time: exactly 2 nodes, 0 edges, each node carrying active=true
\* in addition to its original attributes.
C5_AddMetadataScenario ==
    (/\ pc = "done"
     /\ rule = RuleAddMetadata
     /\ iterations = 1
     /\ Cardinality(DOMAIN graph0.nodes) = 2
     /\ \A n \in DOMAIN graph0.nodes :
           graph0.nodes[n].type = "person" /\ "age" \in DOMAIN graph0.nodes[n].metadata
     /\ DOMAIN graph0.edges = {}) =>
        /\ Cardinality(DOMAIN graph.nodes) = 2
        /\ DOMAIN graph.edges = {}
        /\ \A n \in DOMAIN graph0.nodes :
              /\ n \in DOMAIN graph.nodes
              /\ "active" \in DOMAIN graph.nodes[n].metadata
              /\ graph.nodes[n].metadata["active"] = Boolean(1)
              /\ \A k \in DOMAIN graph0.nodes[n].metadata :
                    /\ k \in DOMAIN graph.nodes[n].metadata
                    /\ graph.nodes[n].metadata[k] = graph0.nodes[n].metadata[k]

C7_UnmatchedDeleted ==
    Rewritten =>
        /\ \A p \in DOMAIN last.m.node_mapping :
              p \notin RhsNodeIds(rule.rhs) =>
                  /\ last.m.node_mapping[p] \notin DOMAIN graph.nodes
                  /\ \A k \in DOMAIN last.pre.edges :
                        Incident(last.pre.edges[k], last.m.node_mapping[p]) =>
                            k \notin DOMAIN graph.edges
        /\ (/\ rule = RuleSplit
            /\ Cardinality(DOMAIN last.pre.nodes) = 1
            /\ DOMAIN last.pre.edges = {}) =>
               /\ Cardinality(DOMAIN graph.nodes) = 2
               /\ Cardinality(DOMAIN graph.edges) = 1

TemplateType(t) == IF t.node_type = None THEN "" ELSE t.node_type[1]

\* C8: after one rewrite of Match M, for every RHS node template t whose id is
\* not a key of M, the graph holds a node with id t.id, t's declared type
\* (empty when none) and exactly t's attributes as metadata, also when t.id is
\* the id of a graph node bound by M.
C8_NewNodesCreated ==
    Rewritten =>
        \A i \in DOMAIN rule.rhs.nodes :
            LET t == rule.rhs.nodes[i] IN
            t.id \notin DOMAIN last.m.node_mapping =>
                /\ t.id \in DOMAIN graph.nodes
                /\ graph.nodes[t.id].id = t.id
                /\ graph.nodes[t.id].type = TemplateType(t)
                /\ graph.nodes[t.id].metadata = t.attributes

\* C9: after one rewrite of Match M, for every RHS edge template e the graph
\* holds an edge with id e.id whose source is M[e.source] if e.source is a key
\* of M and the literal e.source otherwise, likewise for the target, and whose
\* metadata is e's attributes; an earlier edge with that id is replaced.
C9_RhsEdgesAdded ==
    Rewritten =>
        \A i \in DOMAIN rule.rhs.edges :
            LET e  == rule.rhs.edges[i]
                nm == last.m.node_mapping IN
            /\ e.id \in DOMAIN graph.edges
            /\ graph.edges[e.id].id = e.id
            /\ graph.edges[e.id].source =
                  (IF e.source \in DOMAIN nm THEN nm[e.source] ELSE e.source)
            /\ graph.edges[e.id].target =
                  (IF e.target \in DOMAIN nm THEN nm[e.target] ELSE e.target)
            /\ graph.edges[e.id].metadata = e.attributes

\* a rewrite whose RHS edge has matched endpoints and attributes and replaces
\* an edge of the same id that joined other nodes
C9_Witness ==
    /\ Rewritten
    /\ \E i \in DOMAIN rule.rhs.edges :
          LET e == rule.rhs.edges[i] IN
          /\ e.source \in DOMAIN last.m.node_mapping
          /\ e.target \in DOMAIN last.m.node_mapping
          /\ last.m.node_mapping[e.source] # e.source
          /\ DOMAIN e.attributes # {}
          /\ e.id \in DOMAIN last.pre.edges
          /\ last.pre.edges[e.id].source # last.m.node_mapping[e.source]

\* C10: after one rewrite of Match M, every graph edge bound by M's edge
\* mapping whose pattern edge id is no RHS edge template id has been deleted,
\* also when both of its endpoints are preserved.
C10_UnmatchedEdgesDeleted ==
    Rewritten =>
        \A pe \in DOMAIN last.m.edge_mapping :
            pe \notin RhsEdgeIds(rule.rhs) =>
                last.m.edge_mapping[pe] \notin DOMAIN graph.edges

ApplyRunning == pc \in {"loop", "for"}

\* C11: Rule::apply(graph, k) terminates, runs at most k matcher passes, runs
\* no matcher pass or rewrite after the first pass that returns no Match, and
\* with k = 0 returns success without reading or changing the graph.
C11_ApplyTerminates ==
    /\ [](passes <= iterations)
    /\ []((last.op = "find_matches" /\ Len(matches) = 0) => pc = "done")
    /\ [][pc = "done" => (passes' = passes /\ graph' = graph /\ pc' = "done")]_vars
    /\ []((pc = "done" /\ iterations = 0) =>
             (result = "ok" /\ passes = 0 /\ graph = graph0))
    /\ (ApplyRunning ~> pc = "done")

\* apply has returned after using up a positive iteration count, every pass
\* having found a Match
C11_Witness ==
    /\ pc = "done"
    /\ result = "ok"
    /\ iterations = MaxIter
    /\ passes = iterations
    /\ last.op = "return"
    /\ graph # graph0

\* an LHS edge template whose source or target is the id of no LHS node
\* template
MalformedLhs(lhs) ==
    \E i \in DOMAIN lhs.edges :
        \/ lhs.edges[i].source \notin {lhs.nodes[j].id : j \in DOMAIN lhs.nodes}
        \/ lhs.edges[i].target \notin {lhs.nodes[j].id : j \in DOMAIN lhs.nodes}

\* an LHS of one node template whose first edge template is the malformed one:
\* an attempt reaches it as soon as its anchor satisfies the node template
UnboundAtFirstEdge(lhs) ==
    /\ Len(lhs.nodes) = 1
    /\ Len(lhs.edges) >= 1
    /\ \/ lhs.edges[1].source # lhs.nodes[1].id
       \/ lhs.edges[1].target # lhs.nodes[1].id

ApplyEnded == pc = "done" /\ iterations >= 1

Called(name) == gen_out.called /\ gen_in.name = name

\* the call's parameter `key` is present with this variant and value
ParamIs(key, variant, v) ==
    /\ key \in DOMAIN gen_in.params
    /\ gen_in.params[key].variant = variant
    /\ gen_in.params[key].v = v

\* the prefix of the call's node ids
CalledPrefix ==
    IF "prefix" \in DOMAIN gen_in.params /\ gen_in.params["prefix"].variant = "String"
    THEN gen_in.params["prefix"].v
    ELSE "n"

NodeCount(g) == Cardinality(DOMAIN g.nodes)

EdgeCount(g) == Cardinality(DOMAIN g.edges)

\* C18: generate_complete with nodes = N >= 0 returns N nodes and
\* N*(N-1)/2 edges when directed is false or absent, N*(N-1) edges when
\* directed is true, and no edge from a node to itself
C18_CompleteCounts ==
    \A N \in 0 .. MaxN :
        (Called("complete") /\ ParamIs("nodes", "Integer", N)) =>
            /\ gen_out.status = "ok"
            /\ NodeCount(gen_out.graph) = N
            /\ EdgeCount(gen_out.graph) =
                   IF ParamIs("directed", "Boolean", 1)
                   THEN N * (N - 1)
                   ELSE (N * (N - 1)) \div 2
            /\ \A e \in Range(gen_out.graph.edges) : e.source # e.target

C18_Witness ==
    /\ Called("complete")
    /\ ParamIs("nodes", "Integer", MaxN)
    /\ ParamIs("directed", "Boolean", 1)
    /\ gen_out.status = "ok"
    /\ EdgeCount(gen_out.graph) = MaxN * (MaxN - 1)

\* C19: generate_cycle with nodes = N >= 1 returns N nodes and N edges with
\* N distinct ids; node i has exactly one outgoing edge, to node (i+1) mod N
\* (for N = 1 a loop on node 0, for N = 2 the two opposite edges)
C19_CycleCounts ==
    \A N \in 1 .. MaxN :
        (Called("cycle") /\ ParamIs("nodes", "Integer", N)) =>
            /\ gen_out.status = "ok"
            /\ NodeCount(gen_out.graph) = N
            /\ EdgeCount(gen_out.graph) = N
            /\ \A i \in 0 .. N - 1 :
                   LET out == {e \in Range(gen_out.graph.edges) :
                                   e.source = CalledPrefix \o ToString(i)}
                   IN  /\ CalledPrefix \o ToString(i) \in DOMAIN gen_out.graph.nodes
                       /\ Cardinality(out) = 1
                       /\ \A e \in out :
                              e.target = CalledPrefix \o ToString((i + 1) % N)

C19_Witness ==
    /\ Called("cycle")
    /\ ParamIs("nodes", "Integer", 1)
    /\ gen_out.status = "ok"
    /\ EdgeCount(gen_out.graph) = 1
    /\ \A e \in Range(gen_out.graph.edges) : e.source = e.target

\* C20: generate_grid with rows = R >= 1 and cols = C >= 1 returns R*C nodes
\* and (R-1)*C + R*(C-1) edges when periodic is false or absent, and R + C
\* more when periodic is true, also for R = 1 or C = 1
C20_GridCounts ==
    \A R \in 1 .. MaxDim, C \in 1 .. MaxDim :
        (/\ Called("grid")
         /\ ParamIs("rows", "Integer", R)
         /\ ParamIs("cols", "Integer", C)) =>
            /\ gen_out.status = "ok"
            /\ NodeCount(gen_out.graph) = R * C
            /\ EdgeCount(gen_out.graph) =
                   (R - 1) * C + R * (C - 1)
                   + (IF ParamIs("periodic", "Boolean", 1) THEN R + C ELSE 0)

C20_Witness ==
    /\ Called("grid")
    /\ ParamIs("rows", "Integer", 1)
    /\ ParamIs("cols", "Integer", MaxDim)
    /\ ParamIs("periodic", "Boolean", 1)
    /\ gen_out.status = "ok"
    /\ EdgeCount(gen_out.graph) = (MaxDim - 1) + 1 + MaxDim

\* the names of the rules defined by the statements before statement k
DefinedBefore(p, k) ==
    {p[j].rule_def.name : j \in {i \in 1 .. k - 1 : p[i].kind = "RuleDefStmt"}}

\* the call has returned an error raised by statement ip
FailedAt == epc = "ready" /\ ip \in DOMAIN program

\* C13: when a call fails in statement k (unknown generator, generator
\* error, unknown rule, rule application error), graph and rules are those
\* the engine had when statement k began, i.e. as statements 1..k-1 left
\* them; the failing step itself changes neither, and nothing runs after it
\* until the next call
C13_FailureKeepsPrefix ==
    /\ [](FailedAt =>
            /\ eresult \in {"unknown_generator", "generator_error",
                            "unknown_rule", "rule_error"}
            /\ eresult \in {"unknown_generator", "generator_error"}
                   => program[ip].kind = "GenerateStmt"
            /\ eresult \in {"unknown_rule", "rule_error"}
                   => program[ip].kind = "ApplyRuleStmt"
            /\ elast.op = program[ip].kind
            /\ graph = elast.graph
            /\ rules = elast.rules)
    /\ [][(epc = "run" /\ epc' = "ready" /\ eresult' # "ok") =>
              (graph' = graph /\ rules' = rules /\ ip' = ip)]_vars
    /\ [][FailedAt =>
              \/ elast'.op = "call"
              \/ (graph' = graph /\ rules' = rules /\ ip' = ip /\ FailedAt')]_vars

C13_Witness ==
    /\ FailedAt
    /\ eresult = "rule_error"
    /\ ip = 3
    /\ "n0" \in DOMAIN graph.nodes
    /\ "r" \in DOMAIN rules

\* C14: a program text that does not parse makes the call return a parse
\* error with graph and rules as they were before the call
C14_ParseErrorKeepsState ==
    /\ []((epc = "ready" /\ eresult = "parse_error") =>
            /\ elast.op = "call"
            /\ graph = elast.graph
            /\ rules = elast.rules)
    /\ [][(epc = "ready" /\ eresult' = "parse_error") =>
              (graph' = graph /\ rules' = rules /\ epc' = "ready")]_vars

C14_Witness ==
    /\ epc = "ready"
    /\ eresult = "parse_error"
    /\ "n0" \in DOMAIN graph.nodes
    /\ "r" \in DOMAIN rules

\* C15: when the first statement of a parsed program runs, graph and rules
\* are empty; the rules held at any later point are defined by earlier
\* statements of the same program, so an apply of a rule that only an
\* earlier program defined ends as an unknown rule
C15_CallStartsEmpty ==
    /\ (epc = "run" /\ pc = "idle" /\ ip = 1) =>
           (graph = GraphNew /\ rules = EmptyMap)
    /\ ip >= 1 => DOMAIN rules \subseteq DefinedBefore(program, ip)
    /\ (/\ FailedAt
        /\ program[ip].kind = "ApplyRuleStmt"
        /\ program[ip].rule_name \in rules0
        /\ program[ip].rule_name \notin DefinedBefore(program, ip)) =>
           eresult = "unknown_rule"

C15_Witness ==
    /\ FailedAt
    /\ program[ip].kind = "ApplyRuleStmt"
    /\ program[ip].rule_name \in rules0
    /\ eresult = "unknown_rule"
    /\ ip = 1

\* C16: statements run in program order. A statement that has run or is
\* running was no apply of a rule undefined before it and no generate of an
\* unregistered name; such a statement ends the call with an unknown-rule
\* or unknown-generator error, with graph and rules as they were before it
C16_StrictOrder ==
    /\ [](\A j \in DOMAIN program :
            (j < ip \/ (j = ip /\ epc = "run" /\ pc # "idle")) =>
                /\ program[j].kind = "ApplyRuleStmt" =>
                       program[j].rule_name \in DefinedBefore(program, j)
                /\ program[j].kind = "GenerateStmt" =>
                       program[j].name \in GeneratorNames)
    /\ []((/\ FailedAt
           /\ program[ip].kind = "ApplyRuleStmt"
           /\ program[ip].rule_name \notin DefinedBefore(program, ip)) =>
              (eresult = "unknown_rule" /\ graph = elast.graph /\ rules = elast.rules))
    /\ []((/\ FailedAt
           /\ program[ip].kind = "GenerateStmt"
           /\ program[ip].name \notin GeneratorNames) =>
              (eresult = "unknown_generator" /\ graph = elast.graph
               /\ rules = elast.rules))
    /\ [][(/\ AtStatement("ApplyRuleStmt")
           /\ program[ip].rule_name \notin DefinedBefore(program, ip)) =>
              (epc' = "ready" /\ eresult' = "unknown_rule" /\ graph' = graph)]_vars
    /\ [][(/\ AtStatement("GenerateStmt")
           /\ program[ip].name \notin GeneratorNames) =>
              (epc' = "ready" /\ eresult' = "unknown_generator" /\ graph' = graph)]_vars

C16_Witness ==
    /\ FailedAt
    /\ eresult = "unknown_rule"
    /\ \E j \in DOMAIN program :
           /\ j > ip
           /\ program[j].kind = "RuleDefStmt"
           /\ program[j].rule_def.name = program[ip].rule_name
    /\ "n0" \in DOMAIN graph.nodes

\* statement ip - 1, of this kind, has just been executed; elast holds the
\* engine as it was before it
JustExecuted(kind) ==
    /\ ip >= 2
    /\ ip - 1 \in DOMAIN program
    /\ program[ip - 1].kind = kind
    /\ elast.op = kind
    /\ (epc = "run" /\ pc = "idle") \/ (epc = "ready" /\ eresult = "ok")

\* the map f with the entries of g written over it
Overwritten(f, g) ==
    [id \in (DOMAIN f) \cup (DOMAIN g) |-> IF id \in DOMAIN g THEN g[id] ELSE f[id]]

\* C17: add_node and add_edge never fail and overwrite by id. After a node
\* declaration the node map is the one before with the declared record
\* under its id, the count is the number of distinct ids, and the edge map
\* is untouched; after an edge declaration likewise, whatever its endpoints;
\* after a generate statement every node and edge of the fragment is in the
\* graph under its id, replacing what was there, and the rest is untouched
C17_AddOverwrites ==
    /\ FailedAt => program[ip].kind \notin {"NodeDecl", "EdgeDecl"}
    /\ JustExecuted("NodeDecl") =>
           LET n == node_of_decl(program[ip - 1].node) IN
           /\ graph.nodes = Overwritten(elast.graph.nodes, Attr(n.id, n))
           /\ NodeCount(graph) = Cardinality((DOMAIN elast.graph.nodes) \cup {n.id})
           /\ graph.edges = elast.graph.edges
    /\ JustExecuted("EdgeDecl") =>
           LET e == edge_of_decl(program[ip - 1].edge) IN
           /\ graph.edges = Overwritten(elast.graph.edges, Attr(e.id, e))
           /\ EdgeCount(graph) = Cardinality((DOMAIN elast.graph.edges) \cup {e.id})
           /\ graph.nodes = elast.graph.nodes
    /\ JustExecuted("GenerateStmt") =>
           LET f == generator_result(program[ip - 1].name,
                                     program[ip - 1].params).graph IN
           /\ graph.nodes = Overwritten(elast.graph.nodes, f.nodes)
           /\ graph.edges = Overwritten(elast.graph.edges, f.edges)

C17_Witness ==
    /\ JustExecuted("GenerateStmt")
    /\ "n0" \in DOMAIN elast.graph.nodes
    /\ elast.graph.nodes["n0"].type = "A"
    /\ graph.nodes["n0"].type = ""
    /\ "e0_1" \in DOMAIN elast.graph.edges
    /\ elast.graph.edges["e0_1"].source = "n1"
    /\ graph.edges["e0_1"].source = "n0"

TemplateIds(pattern) == {pattern.nodes[i].id : i \in DOMAIN pattern.nodes}

EdgeTemplateIds(pattern) == {pattern.edges[i].id : i \in DOMAIN pattern.edges}

\* no two node templates and no two edge templates of the pattern share an id
DistinctTemplateIds(pattern) ==
    /\ \A i \in DOMAIN pattern.nodes : \A j \in DOMAIN pattern.nodes :
           i # j => pattern.nodes[i].id # pattern.nodes[j].id
    /\ \A i \in DOMAIN pattern.edges : \A j \in DOMAIN pattern.edges :
           i # j => pattern.edges[i].id # pattern.edges[j].id

\* the node has the template's type when one is declared, and every template
\* attribute with the same variant and the same content
Satisfies(n, t) ==
    /\ (t.node_type # None => n.type = t.node_type[1])
    /\ \A k \in DOMAIN t.attributes :
           /\ k \in DOMAIN n.metadata
           /\ n.metadata[k].variant = t.attributes[k].variant
           /\ n.metadata[k].v = t.attributes[k].v

\* C21: every Match the matcher returns for a pattern with distinct template
\* ids is an injective embedding into the graph it was computed on: distinct
\* node templates are bound to distinct nodes of the graph, each bound node
\* has the template's type (when declared) and every template attribute with
\* equal variant and content, distinct edge templates are bound to distinct
\* edges of the graph, and each bound edge joins the nodes bound to its
\* template's source and target. With at least one node template, every
\* node and edge template is bound.
C21_ValidEmbedding ==
    (match_out.called /\ DistinctTemplateIds(match_in.pattern)) =>
        \A k \in DOMAIN match_out.matches :
            LET g  == match_in.graph
                p  == match_in.pattern
                nm == match_out.matches[k].node_mapping
                em == match_out.matches[k].edge_mapping
            IN  /\ DOMAIN nm \subseteq TemplateIds(p)
                /\ DOMAIN em \subseteq EdgeTemplateIds(p)
                /\ Len(p.nodes) >= 1 =>
                       /\ DOMAIN nm = TemplateIds(p)
                       /\ DOMAIN em = EdgeTemplateIds(p)
                /\ \A x \in DOMAIN nm : \A y \in DOMAIN nm :
                       x # y => nm[x] # nm[y]
                /\ \A i \in DOMAIN p.nodes :
                       p.nodes[i].id \in DOMAIN nm =>
                           /\ nm[p.nodes[i].id] \in DOMAIN g.nodes
                           /\ Satisfies(g.nodes[nm[p.nodes[i].id]], p.nodes[i])
                /\ \A x \in DOMAIN em : \A y \in DOMAIN em :
                       x # y => em[x] # em[y]
                /\ \A i \in DOMAIN p.edges :
                       LET t == p.edges[i] IN
                       t.id \in DOMAIN em =>
                           /\ em[t.id] \in DOMAIN g.edges
                           /\ t.source \in DOMAIN nm
                           /\ t.target \in DOMAIN nm
                           /\ g.edges[em[t.id]].source = nm[t.source]
                           /\ g.edges[em[t.id]].target = nm[t.target]

\* a pass for the person-of-age-Integer-30 pattern on a graph where n1 is a
\* person of age Float 30.0: the one Match binds the person template to n2
\* and the two edge templates to the two opposite edges
C21_Witness ==
    /\ match_out.called
    /\ match_in.op = "find_matches"
    /\ match_in.pattern = PatternPersonLinked
    /\ match_in.graph.nodes["n1"].metadata = Attr("age", Float(300))
    /\ match_in.graph.nodes["n1"].type = "person"
    /\ Len(match_out.matches) = 1
    /\ match_out.matches[1].node_mapping["N"] = "n2"
    /\ match_out.matches[1].node_mapping["B"] = "n1"
    /\ match_out.matches[1].edge_mapping["E1"] # match_out.matches[1].edge_mapping["E2"]

\* the bindings of all node templates that first-fit produces for anchor a:
\* the first template is bound to a, which satisfies it, and each later
\* template to the first node of the iteration order nord that no earlier
\* template is bound to and that satisfies the template (at most one binding)
FirstFitBindings(g, pattern, nord, a) ==
    {nm \in [TemplateIds(pattern) -> DOMAIN g.nodes] :
        /\ nm[pattern.nodes[1].id] = a
        /\ Satisfies(g.nodes[a], pattern.nodes[1])
        /\ \A i \in 2 .. Len(pattern.nodes) :
               LET used == {nm[pattern.nodes[j].id] : j \in 1 .. (i - 1)}
                   cand(k) == /\ nord[k] \notin used
                              /\ Satisfies(g.nodes[nord[k]], pattern.nodes[i])
               IN  \E k \in DOMAIN nord :
                       /\ nm[pattern.nodes[i].id] = nord[k]
                       /\ cand(k)
                       /\ \A k2 \in 1 .. (k - 1) : ~cand(k2)}

\* under the node binding nm the edge templates can be bound to distinct
\* edges joining the bound endpoints
EdgesBindable(g, pattern, nm) ==
    \E em \in [EdgeTemplateIds(pattern) -> DOMAIN g.edges] :
        /\ \A x \in DOMAIN em : \A y \in DOMAIN em : x # y => em[x] # em[y]
        /\ \A i \in DOMAIN pattern.edges :
               LET t == pattern.edges[i] IN
               /\ g.edges[em[t.id]].source = nm[t.source]
               /\ g.edges[em[t.id]].target = nm[t.target]

\* the injective bindings of all templates anchored at a that satisfy every
\* node and edge template
EmbeddingsAt(g, pattern, a) ==
    {nm \in [TemplateIds(pattern) -> DOMAIN g.nodes] :
        /\ nm[pattern.nodes[1].id] = a
        /\ \A x \in DOMAIN nm : \A y \in DOMAIN nm : x # y => nm[x] # nm[y]
        /\ \A i \in DOMAIN pattern.nodes :
               Satisfies(g.nodes[nm[pattern.nodes[i].id]], pattern.nodes[i])
        /\ EdgesBindable(g, pattern, nm)}

\* one attempt was made for a pattern with distinct template ids, at least
\* one node template and no malformed edge template
AttemptMade ==
    /\ match_out.called
    /\ match_in.op = "match_pattern_from_node"
    /\ DistinctTemplateIds(match_in.pattern)
    /\ Len(match_in.pattern.nodes) >= 1
    /\ ~MalformedLhs(match_in.pattern)

\* C22: the matcher is first-fit without backtracking. In the attempt for an
\* anchor a, each later node template is bound to the first node in
\* iteration order that is not yet bound in this attempt and satisfies the
\* template's node constraints, whatever the edge templates are; the attempt
\* yields a Match exactly when that one binding exists and its edge
\* templates can be bound, and no Match otherwise.
C22_FirstFit ==
    AttemptMade =>
        LET g == match_in.graph
            p == match_in.pattern
            F == FirstFitBindings(g, p, match_in.nord, match_in.start_node)
        IN  /\ match_out.status \in {"some", "none"}
            /\ match_out.status = "some" =>
                   match_out.matches[1].node_mapping \in F
            /\ match_out.status = "some" <=>
                   \E nm \in F : EdgesBindable(g, p, nm)

\* the attempt for anchor n1 and the two-node, one-edge pattern yields no
\* Match although an embedding anchored at n1 exists: first-fit bound the
\* second template to a node without the edge
C22_Witness ==
    /\ AttemptMade
    /\ match_in.pattern = RuleUnlink.lhs
    /\ match_in.start_node = "n1"
    /\ match_out.status = "none"
    /\ FirstFitBindings(match_in.graph, match_in.pattern, match_in.nord, "n1") # {}
    /\ EmbeddingsAt(match_in.graph, match_in.pattern, "n1") # {}

\* the Match binds a node that is not in the graph g
Stale(m, g) == \E x \in Range(m.node_mapping) : x \notin DOMAIN g.nodes

\* the rewrite of Match m has acted on graph h: the nodes bound to templates
\* that are not in the RHS are absent, the created RHS nodes are present,
\* and every RHS edge template's edge is present with its resolved endpoints
RewriteApplied(h, rhs, m) ==
    /\ removed_ids(rhs, m) \cap DOMAIN h.nodes = {}
    /\ \A i \in DOMAIN rhs.nodes :
           creates_node(m, rhs_node_id(m, rhs.nodes[i])) =>
               rhs_node_id(m, rhs.nodes[i]) \in DOMAIN h.nodes
    /\ \A i \in DOMAIN rhs.edges :
           /\ rhs.edges[i].id \in DOMAIN h.edges
           /\ h.edges[rhs.edges[i].id] = new_edge(m, rhs.edges[i])

\* C23: in each round of Rule::apply the match set is computed once, on the
\* graph as it is at the start of the round and before any rewrite of the
\* round; the Matches of the set are then rewritten one after the other in
\* discovery order on the shared graph, none of them validated again, so a
\* rewrite acts also when an earlier rewrite of the round removed a node its
\* Match binds.
C23_RoundSemantics ==
    /\ [][(pc = "loop" /\ pc' = "for") =>
             /\ graph' = graph
             /\ next_match' = 1
             /\ \E nord \in Perms(DOMAIN graph.nodes),
                   eord \in Perms(DOMAIN graph.edges) :
                   LET r == find_matches(graph, rule.lhs, nord, eord) IN
                   r.ok /\ matches' = r.matches]_vars
    /\ [](pc = "for" => passes = round + 1)
    /\ [][pc = "for" =>
             /\ matches' = matches
             /\ passes' = passes
             /\ last'.op = "apply_transformation"
             /\ last'.m = matches[next_match]
             /\ last'.pre = graph
             /\ RewriteApplied(graph', rule.rhs, matches[next_match])
             /\ IF next_match < Len(matches)
                THEN pc' = "for" /\ next_match' = next_match + 1 /\ round' = round
                ELSE pc' = "loop" /\ round' = round + 1]_vars

\* the second rewrite of a round has acted with a Match that binds a node
\* the first rewrite of the round removed
C23_Witness ==
    /\ last.op = "apply_transformation"
    /\ pc = "loop"
    /\ Len(matches) = 2
    /\ last.m = matches[2]
    /\ Stale(last.m, last.pre)
    /\ Range(last.m.node_mapping) \subseteq DOMAIN graph0.nodes
    /\ round = 1
    /\ graph # last.pre

\* what extend_match leaves for the attempt anchored at a
Attempt(g, lhs, a, nord, eord) ==
    extend_match(g, lhs, Put(EmptyMap, lhs.nodes[1].id, a), EmptyMap, nord, eord)

\* the attempt anchored at a binds every node template of lhs (none to bind
\* when lhs has no node template)
FullyNodeBound(g, lhs, a, nord, eord) ==
    \/ Len(lhs.nodes) = 0
    \/ /\ node_matches(g, a, lhs.nodes[1]).val
       /\ DOMAIN Attempt(g, lhs, a, nord, eord).node_mapping = TemplateIds(lhs)

\* the ids of the edge templates in front of the first malformed one
BeforeMalformed(lhs) ==
    {lhs.edges[i].id : i \in {k \in DOMAIN lhs.edges :
                                \A j \in 1 .. k : ~MalformedLhs(Pattern(lhs.nodes, <<lhs.edges[j]>>))}}

\* the attempt anchored at a binds every node template and every edge
\* template in front of the first malformed one
ReachesMalformed(g, lhs, a, nord, eord) ==
    /\ FullyNodeBound(g, lhs, a, nord, eord)
    /\ Len(lhs.nodes) >= 1
    /\ DOMAIN Attempt(g, lhs, a, nord, eord).edge_mapping = BeforeMalformed(lhs)

\* an error leaves the graph as it was at the call, comes from the first
\* matcher pass of a rule with a malformed LHS edge template, and never
\* follows a rewrite
ErrorFromFirstPass ==
    /\ (pc = "done" /\ result = "err") =>
           /\ graph = graph0
           /\ passes = 1
           /\ last.op = "find_matches"
           /\ MalformedLhs(rule.lhs)
    /\ Rewritten => result = ""

\* C24 as stated: whenever Rule::apply returns an error the graph is the
\* graph before the call, the error comes from the first matcher pass and
\* never from the rewriter; a malformed LHS edge template makes every fully
\* node-bound attempt fail with an error, so that no Match is ever produced
\* for such a rule
C24_ErrorKeepsGraphAsStated ==
    /\ ErrorFromFirstPass
    /\ (pc # "idle" /\ MalformedLhs(rule.lhs)) =>
           /\ matches = <<>>
           /\ \A a \in DOMAIN graph.nodes :
              \A nord \in Perms(DOMAIN graph.nodes), eord \in Perms(DOMAIN graph.edges) :
                  FullyNodeBound(graph, rule.lhs, a, nord, eord) =>
                      match_pattern_from_node(graph, a, rule.lhs, nord, eord).status = "err"

\* C24: whenever Rule::apply returns an error the graph is the graph before
\* the call, the error comes from the first matcher pass and never from the
\* rewriter. For an LHS with at least one node template and a malformed edge
\* template no Match is ever produced, and an attempt fails with an error
\* exactly when it binds every node template and every edge template in
\* front of the malformed one; an LHS without node templates returns a Match
\* for every attempt and never an error.
C24_ErrorKeepsGraph ==
    /\ ErrorFromFirstPass
    /\ (pc # "idle" /\ MalformedLhs(rule.lhs)) =>
           /\ Len(rule.lhs.nodes) >= 1 => matches = <<>>
           /\ \A a \in DOMAIN graph.nodes :
              \A nord \in Perms(DOMAIN graph.nodes), eord \in Perms(DOMAIN graph.edges) :
                  LET r == match_pattern_from_node(graph, a, rule.lhs, nord, eord) IN
                  /\ Len(rule.lhs.nodes) = 0 => r.status = "some"
                  /\ Len(rule.lhs.nodes) >= 1 =>
                         /\ r.status \in {"err", "none"}
                         /\ r.status = "err" <=>
                                ReachesMalformed(graph, rule.lhs, a, nord, eord)

\* apply of the rule whose second edge template is malformed has returned an
\* error from its first pass on a graph of two or more nodes that holds an
\* edge for the first edge template
C24_Witness ==
    /\ pc = "done"
    /\ result = "err"
    /\ rule = RuleMalformedSecond
    /\ passes = 1
    /\ graph = graph0
    /\ Cardinality(DOMAIN graph.nodes) >= 2
    /\ DOMAIN graph.edges # {}

\* every edge of g has its source and its target in the node map
Closed(g) ==
    \A k \in DOMAIN g.edges :
        /\ g.edges[k].source \in DOMAIN g.nodes
        /\ g.edges[k].target \in DOMAIN g.nodes

\* every RHS edge template's source and target are ids of RHS node templates
RhsClosed(rhs) ==
    \A i \in DOMAIN rhs.edges :
        /\ rhs.edges[i].source \in RhsNodeIds(rhs)
        /\ rhs.edges[i].target \in RhsNodeIds(rhs)

\* C25: rule application keeps referential integrity. If every edge of the
\* graph has its source and its target in the node map when Rule::apply is
\* called, and every RHS edge template's source and target are ids of RHS
\* node templates, then every edge has its source and its target in the
\* node map when Rule::apply has returned, whatever the iteration count.
C25_ReferentialIntegrity ==
    (pc = "done" /\ Closed(graph0) /\ RhsClosed(rule.rhs)) => Closed(graph)

\* Rule::apply is running or has returned for a rule whose LHS has no node
\* template
ZeroNodeLhs == pc # "idle" /\ Len(rule.lhs.nodes) = 0

\* a matcher pass for such a rule returns one empty Match per node of the
\* graph it runs on and no error; apply deletes no node, leaves a graph
\* without nodes as it is, and on a graph with nodes runs every requested
\* iteration
ZeroNodeLhsPasses ==
    /\ (ZeroNodeLhs /\ last.op = "find_matches") =>
           /\ result # "err"
           /\ Len(matches) = NodeCount(graph)
           /\ \A k \in DOMAIN matches : matches[k] = NoMatch
    /\ ZeroNodeLhs => DOMAIN graph0.nodes \subseteq DOMAIN graph.nodes
    /\ (ZeroNodeLhs /\ pc = "done") =>
           /\ result = "ok"
           /\ IF NodeCount(graph0) = 0
              THEN graph = graph0
              ELSE passes = iterations /\ last.op = "return"

\* C26 as stated: for a rule whose LHS has no node template a matcher pass
\* returns one empty Match per node of the current graph and never an
\* error, whatever edge templates the LHS holds; apply leaves an empty graph
\* empty, and called on a graph with n >= 1 nodes it rewrites n Matches in
\* each round, for every requested iteration, and deletes no node
C26_EmptyLhsAsStated ==
    /\ ZeroNodeLhsPasses
    /\ (ZeroNodeLhs /\ pc = "for" /\ NodeCount(graph0) >= 1) =>
           Len(matches) = NodeCount(graph0)

\* C26: for a rule whose LHS has no node template a matcher pass returns
\* one empty Match per node of the current graph and never an error,
\* whatever edge templates the LHS holds; apply leaves an empty graph empty,
\* and called on a graph with n >= 1 nodes it runs every requested
\* iteration, deletes no node, and rewrites in each round one Match per node
\* present at the start of that round: n in the first round, at least n in
\* a later one.
C26_EmptyLhs ==
    /\ ZeroNodeLhsPasses
    /\ (ZeroNodeLhs /\ pc = "for" /\ NodeCount(graph0) >= 1) =>
           /\ Len(matches) >= NodeCount(graph0)
           /\ round = 0 => Len(matches) = NodeCount(graph0)

\* apply of the rule with an edge template and no node template has run two
\* rounds on a graph of n >= 1 nodes without B2: the second round rewrote
\* n + 1 Matches
C26_Witness ==
    /\ pc = "done"
    /\ rule = RuleSpawnEdge
    /\ iterations = 2
    /\ passes = 2
    /\ result = "ok"
    /\ NodeCount(graph0) >= 1
    /\ "B2" \notin DOMAIN graph0.nodes
    /\ Len(matches) = NodeCount(graph0) + 1
    /\ NodeCount(graph) = NodeCount(graph0) + 1
====
